---- MODULE Spec2Model ----
(***************************************************************************)
(* A model of ratelimit-kit: the two rate algorithms (sliding window and   *)
(* token bucket), the Ratelimit orchestrator (load -> compute -> save),    *)
(* the in-process memory store and the Redis store.                        *)
(*                                                                         *)
(* Numbers.  Times are integer milliseconds.  The sliding window's weight  *)
(* and "effective" count, the token bucket's tokens, its refill per        *)
(* millisecond and what the code computes from them are IEEE-754 doubles,  *)
(* computed bit for bit as the code computes them.  The value returned by  *)
(* the cost function is a JavaScript number: a finite value kept in        *)
(* tenths, NaN, +Infinity or -Infinity.                                    *)
(***************************************************************************)
EXTENDS Integers, Sequences, FiniteSets, TLC

\* ------------------------------------------------------------------ bounds
\* The clock takes the values 0, 500, ..., 500 * MaxTick.
MaxTick == 4
\* Configured limit / capacity ranges over 1..MaxLimit.
MaxLimit == 2
\* The cost function returns finite values in [-MaxRawCost, MaxRawCost].
MaxRawCost == 3
\* limit calls that may be in flight at once.
NumCalls == 2
\* A sliding-window count is not driven beyond this.
MaxCount == 3

\* ----------------------------------------------------------- arithmetic
Max(a, b) == IF a >= b THEN a ELSE b
Min(a, b) == IF a <= b THEN a ELSE b
\* Math.ceil(a / b) for b > 0
CeilDiv(a, b) == -((-a) \div b)
\* Math.floor(a / b) for b > 0
FloorDiv(a, b) == a \div b

\* ------------------------------------------------------ JavaScript numbers
\* A JavaScript number as returned by the cost function: finite (v in tenths),
\* NaN, +Infinity or -Infinity.
Num(tenths) == [k |-> "num", v |-> tenths]
NaN == [k |-> "nan", v |-> 0]
PosInf == [k |-> "pinf", v |-> 0]
NegInf == [k |-> "ninf", v |-> 0]
IsFinite(x) == x.k = "num"

\* Math.floor
JsFloor(x) == IF x.k = "num" THEN Num((x.v \div 10) * 10) ELSE x
\* x || 1 : 0 and NaN are falsy
JsOr1(x) == IF x.k = "nan" \/ (x.k = "num" /\ x.v = 0) THEN Num(10) ELSE x
\* Math.max(0, x)
JsMax0(x) ==
  CASE x.k = "nan" -> NaN
    [] x.k = "pinf" -> PosInf
    [] x.k = "ninf" -> Num(0)
    [] OTHER -> Num(Max(0, x.v))

\* Ratelimit.limit: const cost = Math.max(0, Math.floor(this.costFn(ctx)) || 1)
NormalizeCost(raw) == JsMax0(JsOr1(JsFloor(raw)))

\* ------------------------------------------------- IEEE-754 double precision
\* A Number of the algorithms: a finite double >= 0 (the operands and results
\* of the code's arithmetic are never negative, but for limit - effective of the
\* sliding window, which is taken by its sign), the value m * 2^e with m a
\* 53-bit mantissa kept as four digits in base LimbBase, least significant
\* first, or m = 0 and e = 0.  With their integer configurations the numbers
\* stay far from the subnormal and the overflow range; the integers taken from
\* them are below 2^31.  A wide number
\* is eight digits; every intermediate value below is within 32 bits.
LimbBase == 2^14
DZero == [m |-> <<0, 0, 0, 0>>, e |-> 0]
DIsZero(x) == x.m[4] = 0

\* the number of bits of a digit
DigitBits(x) ==
  IF x >= 128
  THEN IF x >= 2048
       THEN IF x >= 8192 THEN 14 ELSE IF x >= 4096 THEN 13 ELSE 12
       ELSE IF x >= 512 THEN (IF x >= 1024 THEN 11 ELSE 10)
            ELSE IF x >= 256 THEN 9 ELSE 8
  ELSE IF x >= 8
       THEN IF x >= 32 THEN (IF x >= 64 THEN 7 ELSE 6)
            ELSE IF x >= 16 THEN 5 ELSE 4
       ELSE IF x >= 2 THEN (IF x >= 4 THEN 3 ELSE 2)
            ELSE IF x >= 1 THEN 1 ELSE 0
\* the digit i of a wide number, 0 beyond its ends
Limb(w, i) == IF i >= 1 /\ i <= 8 THEN w[i] ELSE 0
Wide(m) == <<m[1], m[2], m[3], m[4], 0, 0, 0, 0>>

\* The digits of the number whose columns are c (a column may be negative or
\* exceed a digit); a negative number ends in the digit LimbBase - 1.
Carry(c) ==
  LET t1 == c[1]
      t2 == c[2] + t1 \div LimbBase
      t3 == c[3] + t2 \div LimbBase
      t4 == c[4] + t3 \div LimbBase
      t5 == c[5] + t4 \div LimbBase
      t6 == c[6] + t5 \div LimbBase
      t7 == c[7] + t6 \div LimbBase
      t8 == c[8] + t7 \div LimbBase
  IN <<t1 % LimbBase, t2 % LimbBase, t3 % LimbBase, t4 % LimbBase,
       t5 % LimbBase, t6 % LimbBase, t7 % LimbBase, t8 % LimbBase>>

\* The digit i of w * 2^(14 * a) * p for p = 2^b, b < 14, and r = 2^(14 - b),
\* and of floor(w / (2^(14 * a) * p)).
ShlLimb(w, a, p, r, i) == (Limb(w, i - a) % r) * p + Limb(w, i - a - 1) \div r
ShrLimb(w, a, p, r, i) == Limb(w, i + a) \div p + (Limb(w, i + a + 1) % p) * r
\* w * 2^s
Shl(w, s) ==
  LET a == s \div 14
      p == 2^(s % 14)
      r == 2^(14 - (s % 14))
  IN IF s = 0 THEN w
     ELSE <<ShlLimb(w, a, p, r, 1), ShlLimb(w, a, p, r, 2), ShlLimb(w, a, p, r, 3),
            ShlLimb(w, a, p, r, 4), ShlLimb(w, a, p, r, 5), ShlLimb(w, a, p, r, 6),
            ShlLimb(w, a, p, r, 7), ShlLimb(w, a, p, r, 8)>>
\* floor(w / 2^s)
Shr(w, s) ==
  LET a == s \div 14
      p == 2^(s % 14)
      r == 2^(14 - (s % 14))
  IN <<ShrLimb(w, a, p, r, 1), ShrLimb(w, a, p, r, 2), ShrLimb(w, a, p, r, 3),
       ShrLimb(w, a, p, r, 4), ShrLimb(w, a, p, r, 5), ShrLimb(w, a, p, r, 6),
       ShrLimb(w, a, p, r, 7), ShrLimb(w, a, p, r, 8)>>
\* the s lowest bits of w are all 0
LowZero(w, s) ==
  /\ \A i \in 1..(s \div 14) : Limb(w, i) = 0
  /\ Limb(w, s \div 14 + 1) % 2^(s % 14) = 0
\* the bit k of w, counted from 0
BitAt(w, k) == (Limb(w, k \div 14 + 1) \div 2^(k % 14)) % 2
\* the number of bits of w
BitLen(w) ==
  IF w[8] # 0 THEN 98 + DigitBits(w[8])
  ELSE IF w[7] # 0 THEN 84 + DigitBits(w[7])
  ELSE IF w[6] # 0 THEN 70 + DigitBits(w[6])
  ELSE IF w[5] # 0 THEN 56 + DigitBits(w[5])
  ELSE IF w[4] # 0 THEN 42 + DigitBits(w[4])
  ELSE IF w[3] # 0 THEN 28 + DigitBits(w[3])
  ELSE IF w[2] # 0 THEN 14 + DigitBits(w[2])
  ELSE DigitBits(w[1])

\* The four lowest digits of w * 2^sh and of floor(w / 2^sh)
ShlQuad(w, a, p, r) ==
  <<ShlLimb(w, a, p, r, 1), ShlLimb(w, a, p, r, 2), ShlLimb(w, a, p, r, 3),
    ShlLimb(w, a, p, r, 4)>>
ShrQuad(w, a, p, r) ==
  <<ShrLimb(w, a, p, r, 1), ShrLimb(w, a, p, r, 2), ShrLimb(w, a, p, r, 3),
    ShrLimb(w, a, p, r, 4)>>
\* The mantissa q of 53 or, after a carry out of the rounding, 54 bits
DNormal(q, e) ==
  IF q[4] >= 2^11 THEN [m |-> <<0, 0, 0, 2^10>>, e |-> e + 1]
  ELSE [m |-> <<q[1], q[2], q[3], q[4]>>, e |-> e]
\* w of more than 53 bits, q its bits from sh on: rounded up when the bits cut
\* off are more than half a unit, or half a unit and q odd
DRoundCut(w, e, sh, q) ==
  DNormal(IF /\ BitAt(w, sh - 1) = 1
             /\ ~LowZero(w, sh - 1) \/ q[1] % 2 = 1
          THEN Carry(<<q[1] + 1, q[2], q[3], q[4], 0, 0, 0, 0>>)
          ELSE q,
          e + sh)
\* w of n bits
DRoundBits(w, e, n) ==
  IF n <= 53
  THEN [m |-> ShlQuad(w, (53 - n) \div 14, 2^((53 - n) % 14), 2^(14 - ((53 - n) % 14))),
        e |-> e - (53 - n)]
  ELSE DRoundCut(w, e, n - 53,
                 ShrQuad(w, (n - 53) \div 14, 2^((n - 53) % 14), 2^(14 - ((n - 53) % 14))))
\* The double nearest to w * 2^e for w > 0, ties to the even mantissa.
DRound(w, e) == DRoundBits(w, e, BitLen(w))

\* An integer 0 <= n < 2^31 as a Number
DSmallInt(n, bits) == [m |-> <<0, 0, 0, n * 2^(11 - bits)>>, e |-> bits - 11 - 42]
DFromInt(n) ==
  IF n = 0 THEN DZero
  ELSE IF n < 2^11 THEN DSmallInt(n, DigitBits(n))
  ELSE DRound(<<n % LimbBase, (n \div LimbBase) % LimbBase, n \div (LimbBase * LimbBase),
                0, 0, 0, 0, 0>>, 0)

\* x + y for x.e >= y.e, neither 0: beyond 55 bits apart y is lost in the rounding
DAddWide(s, y) ==
  DRound(Carry(<<s[1] + y.m[1], s[2] + y.m[2], s[3] + y.m[3], s[4] + y.m[4],
                 s[5], s[6], s[7], s[8]>>), y.e)
DAddAligned(x, y) ==
  IF x.e - y.e > 55 THEN x ELSE DAddWide(Shl(Wide(x.m), x.e - y.e), y)
\* x + y
DAdd(x, y) ==
  IF DIsZero(x) THEN y
  ELSE IF DIsZero(y) THEN x
  ELSE DAddAligned(IF x.e >= y.e THEN x ELSE y, IF x.e >= y.e THEN y ELSE x)
DSubWide(s, y) ==
  DRound(Carry(<<s[1] - y.m[1], s[2] - y.m[2], s[3] - y.m[3], s[4] - y.m[4],
                 s[5], s[6], s[7], s[8]>>), y.e)
\* x - y for x >= y
DSub(x, y) ==
  IF DIsZero(y) THEN x
  ELSE IF x = y THEN DZero
  ELSE IF x.e - y.e > 55 THEN x
  ELSE DSubWide(Shl(Wide(x.m), x.e - y.e), y)
\* x * y
DMul(x, y) ==
  IF DIsZero(x) \/ DIsZero(y) THEN DZero
  ELSE LET a == x.m
           b == y.m
       IN DRound(Carry(<<a[1] * b[1],
                         a[1] * b[2] + a[2] * b[1],
                         a[1] * b[3] + a[2] * b[2] + a[3] * b[1],
                         a[1] * b[4] + a[2] * b[3] + a[3] * b[2] + a[4] * b[1],
                         a[2] * b[4] + a[3] * b[3] + a[4] * b[2],
                         a[3] * b[4] + a[4] * b[3],
                         a[4] * b[4],
                         0>>), x.e + y.e)

\* One digit of a long division: the quotient digit and the remainder of r by
\* d, for r < d * LimbBase and d of four digits, the leading one at least
\* LimbBase / 2, so that the estimate q from the leading digits is at most 2
\* too large.
RECURSIVE DivDigit(_, _, _)
DivDigit(r, d, q) ==
  LET t == Carry(<<r[1] - d[1] * q, r[2] - d[2] * q, r[3] - d[3] * q, r[4] - d[4] * q,
                   r[5], 0, 0, 0>>)
  IN IF t[8] # 0 THEN DivDigit(r, d, q - 1) ELSE [q |-> q, r |-> t]
\* the next digit, a 0 of the dividend taken down to the remainder of the last
DivNext(last, d) ==
  DivDigit(<<0, last.r[1], last.r[2], last.r[3], last.r[4], 0, 0, 0>>, d,
           Min(LimbBase - 1, (last.r[4] * LimbBase + last.r[3]) \div d[4]))
\* The quotient digits s5 .. s1, most significant first, the last with its
\* remainder: twice the quotient and one more bit that tells whether a
\* remainder is left
DQuotient(e, s5, s4, s3, s2, s1) ==
  DRound(Carry(<<2 * s1.q + (IF s1.r = <<0, 0, 0, 0, 0, 0, 0, 0>> THEN 0 ELSE 1),
                 2 * s2.q, 2 * s3.q, 2 * s4.q, 2 * s5.q, 0, 0, 0>>), e)
DDiv2(e, d, s5, s4, s3, s2) == DQuotient(e, s5, s4, s3, s2, DivNext(s2, d))
DDiv3(e, d, s5, s4, s3) == DDiv2(e, d, s5, s4, s3, DivNext(s3, d))
DDiv4(e, d, s5, s4) == DDiv3(e, d, s5, s4, DivNext(s4, d))
DDiv5(e, d, s5) == DDiv4(e, d, s5, DivNext(s5, d))
DDivWide(e, n, d) == DDiv5(e, d, DivDigit(n, d, n[4] \div d[4]))
\* x / y for y > 0: floor(mx * 2^56 / my) by long division of mx * 8 * LimbBase^4
\* by my * 8
DDiv(x, y) ==
  IF DIsZero(x) THEN DZero
  ELSE DDivWide(x.e - y.e - 57,
                Carry(<<8 * x.m[1], 8 * x.m[2], 8 * x.m[3], 8 * x.m[4], 0, 0, 0, 0>>),
                Carry(<<8 * y.m[1], 8 * y.m[2], 8 * y.m[3], 8 * y.m[4], 0, 0, 0, 0>>))
\* -1, 0 or 1 as x < y, x = y or x > y
DCmp(x, y) ==
  IF x = y THEN 0
  ELSE IF DIsZero(x) THEN 0 - 1
  ELSE IF DIsZero(y) THEN 1
  ELSE IF x.e # y.e THEN (IF x.e < y.e THEN 0 - 1 ELSE 1)
  ELSE IF x.m[4] # y.m[4] THEN (IF x.m[4] < y.m[4] THEN 0 - 1 ELSE 1)
  ELSE IF x.m[3] # y.m[3] THEN (IF x.m[3] < y.m[3] THEN 0 - 1 ELSE 1)
  ELSE IF x.m[2] # y.m[2] THEN (IF x.m[2] < y.m[2] THEN 0 - 1 ELSE 1)
  ELSE IF x.m[1] < y.m[1] THEN 0 - 1 ELSE 1
\* Math.min(x, y)
DMin(x, y) == IF DCmp(x, y) <= 0 THEN x ELSE y
\* the integer of the three lowest digits of a wide number
WideInt(t) == t[1] + t[2] * LimbBase + t[3] * LimbBase * LimbBase
\* Math.floor(x), an integer, for x < 2^31
DFloor(x) ==
  IF DIsZero(x) \/ 0 - x.e > 53 THEN 0
  ELSE WideInt(Shr(Wide(x.m), 0 - x.e))
\* Math.ceil(x), an integer, for x < 2^31
DCeil(x) ==
  DFloor(x) + (IF ~DIsZero(x) /\ (0 - x.e > 53 \/ ~LowZero(Wide(x.m), 0 - x.e))
               THEN 1 ELSE 0)

\* ------------------------------------------------------------ algorithms
\* An algorithm configuration.  limit is the sliding window's limit or the
\* token bucket's capacity; windowMs is used by the sliding window only,
\* refillRatePerSec, refillPerMs and ttlMs by the token bucket only.
SlidingCfg(limit, windowMs) ==
  [name |-> "sliding", limit |-> limit, windowMs |-> windowMs, refillRatePerSec |-> 0,
   refillPerMs |-> DZero, ttlMs |-> 0]
\* Math.max(1000, Math.ceil((capacity / refillPerMs) + 1000))
BucketTtl(capacity, refillPerMs) ==
  Max(1000, DCeil(DAdd(DDiv(DFromInt(capacity), refillPerMs), DFromInt(1000))))
\* const refillPerMs = refillRatePerSec / 1000
BucketCfg(capacity, rate) ==
  [name |-> "tokenBucket", limit |-> capacity, windowMs |-> 0, refillRatePerSec |-> rate,
   refillPerMs |-> DDiv(DFromInt(rate), DFromInt(1000)),
   ttlMs |-> BucketTtl(capacity, DDiv(DFromInt(rate), DFromInt(1000)))]

\* undefined: what store.load returns when the store holds nothing for the key.
Absent == [absent |-> TRUE]
IsAbsent(st) == "absent" \in DOMAIN st
\* null: what JSON.parse('null') returns.
Null == [null |-> TRUE]
\* state ?? { ... }: the fresh state is taken for undefined and for null
IsNullish(st) == IsAbsent(st) \/ st = Null

\* const curWindowStart = Math.floor(now / windowMs) * windowMs
CurWindowStart(cfg, now) == FloorDiv(now, cfg.windowMs) * cfg.windowMs
PrevWindowStart(cfg, now) == CurWindowStart(cfg, now) - cfg.windowMs

\* const s = state ?? { windowStart, count: 0, prevStart, prevCount: 0 }
SwFresh(cfg, now) ==
  [windowStart |-> CurWindowStart(cfg, now), count |-> 0,
   prevStart |-> PrevWindowStart(cfg, now), prevCount |-> 0]

\* A window shift that carries the stored count over whatever the distance.
SwShiftCarry(cfg, s, now) ==
  LET cur == CurWindowStart(cfg, now)
  IN IF s.windowStart # cur
     THEN [windowStart |-> cur, count |-> 0,
           prevStart |-> PrevWindowStart(cfg, now), prevCount |-> s.count]
     ELSE s

\* A window shift that keeps the stored window as the previous one whatever
\* the distance.
SwShiftKeepStart(cfg, s, now) ==
  LET cur == CurWindowStart(cfg, now)
  IN IF s.windowStart # cur
     THEN [windowStart |-> cur, count |-> 0,
           prevStart |-> s.windowStart, prevCount |-> s.count]
     ELSE s

\* if (s.windowStart !== curWindowStart) { shift the windows }
SwShift(cfg, s, now) ==
  LET cur == CurWindowStart(cfg, now)
      prev == PrevWindowStart(cfg, now)
      contiguous == s.windowStart = prev
  IN IF s.windowStart # cur
     THEN [windowStart |-> cur, count |-> 0,
           prevStart |-> IF contiguous THEN s.windowStart ELSE prev,
           prevCount |-> IF contiguous THEN s.count ELSE 0]
     ELSE s

\* A sliding window that counts a cost only while the count stays within the
\* largest limit, as if costs beyond it were not recorded.
SwCountAdmitted(s, cost) ==
  IF s.count + cost <= MaxLimit THEN [s EXCEPT !.count = @ + cost] ELSE s

\* s.count += cost
SwCount(s, cost) == [s EXCEPT !.count = @ + cost]

\* const overlapMs = windowMs - (now - curWindowStart);
\* const weight = overlapMs / windowMs
SwWeight(cfg, now) ==
  DDiv(DFromInt(cfg.windowMs - (now - CurWindowStart(cfg, now))), DFromInt(cfg.windowMs))

\* const effective = s.count + (s.prevStart === prevWindowStart ? s.prevCount * weight : 0)
\* in double precision, as the code computes it
SwEffective(cfg, s, now) ==
  DAdd(DFromInt(s.count),
       IF s.prevStart = PrevWindowStart(cfg, now)
       THEN DMul(DFromInt(s.prevCount), SwWeight(cfg, now))
       ELSE DZero)

\* Math.floor(limit - effective); the difference is negative when effective
\* exceeds the limit
SwLeft(cfg, effective) ==
  IF DCmp(effective, DFromInt(cfg.limit)) > 0
  THEN 0 - DCeil(DSub(effective, DFromInt(cfg.limit)))
  ELSE DFloor(DSub(DFromInt(cfg.limit), effective))

\* { allowed, limit, remaining, reset, retryAfter } with
\*   reset = Math.ceil((s.windowStart + windowMs) / 1000)
\*   if (!allowed) { retryAfter = (s.windowStart + windowMs) - now;
\*                   if (retryAfter < 0) retryAfter = 0 }
SwAnswer(cfg, s, now, allowed, remaining) ==
  [allowed |-> allowed,
   limit |-> cfg.limit,
   remaining |-> remaining,
   reset |-> CeilDiv(s.windowStart + cfg.windowMs, 1000),
   hasRetryAfter |-> ~allowed,
   retryAfter |-> IF allowed THEN 0 ELSE Max(0, (s.windowStart + cfg.windowMs) - now)]

\* A sliding window that reports limit - effective as it is, below 0 too.
SwDecideUnclamped(cfg, s, now, effective) ==
  SwAnswer(cfg, s, now, DCmp(effective, DFromInt(cfg.limit)) <= 0, SwLeft(cfg, effective))

\* A sliding window that denies the request that reaches the limit exactly.
SwDecideStrict(cfg, s, now, effective) ==
  SwAnswer(cfg, s, now, DCmp(effective, DFromInt(cfg.limit)) < 0,
           Max(0, SwLeft(cfg, effective)))

\* const allowed = effective <= limit;
\* const remaining = Math.max(0, Math.floor(limit - effective))
SwDecide(cfg, s, now, effective) ==
  SwAnswer(cfg, s, now, DCmp(effective, DFromInt(cfg.limit)) <= 0,
           Max(0, SwLeft(cfg, effective)))

\* The decision of the sliding window on the state s after the count is added.
SwResult(cfg, s, now) == SwDecide(cfg, s, now, SwEffective(cfg, s, now))

\* const ttlMs = Math.max(1000, (s.windowStart + 2 * windowMs) - now)
SwTtl(cfg, s, now) == Max(1000, (s.windowStart + 2 * cfg.windowMs) - now)

\* slidingWindow(config).compute(state, cost, now)
SlidingCompute(cfg, state, cost, now) ==
  LET s0 == IF IsNullish(state) THEN SwFresh(cfg, now) ELSE state
      s == SwCount(SwShift(cfg, s0, now), cost)
  IN [state |-> s, result |-> SwResult(cfg, s, now), ttlMs |-> SwTtl(cfg, s, now)]

\* const s = state ?? { tokens: capacity, last: now }
TbFresh(cfg, now) == [tokens |-> DFromInt(cfg.limit), last |-> now]

\* A refill that does not cap the tokens at the capacity.
TbRefillUncapped(cfg, s, now) ==
  IF now > s.last
  THEN [tokens |-> DAdd(s.tokens, DMul(DFromInt(now - s.last), cfg.refillPerMs)),
        last |-> now]
  ELSE s

\* A refill that takes a now earlier than the last refill time for the distance
\* between the two.
TbRefillAnyDelta(cfg, s, now) ==
  IF now # s.last
  THEN [tokens |-> DMin(DFromInt(cfg.limit),
                        DAdd(s.tokens,
                             DMul(DFromInt(IF now > s.last THEN now - s.last
                                           ELSE s.last - now),
                                  cfg.refillPerMs))),
        last |-> now]
  ELSE s

\* if (now > s.last) { const delta = now - s.last; const refill = delta * refillPerMs;
\*   s.tokens = Math.min(capacity, s.tokens + refill); s.last = now }
TbRefill(cfg, s, now) ==
  IF now > s.last
  THEN [tokens |-> DMin(DFromInt(cfg.limit),
                        DAdd(s.tokens, DMul(DFromInt(now - s.last), cfg.refillPerMs))),
        last |-> now]
  ELSE s

\* An admission test that refuses the request that empties the bucket.
TbAllowedStrict(s, cost) == DCmp(s.tokens, DFromInt(cost)) > 0

\* if (s.tokens >= cost) { s.tokens -= cost; allowed = true } else { retryAfter = ... }
TbAllowed(s, cost) == DCmp(s.tokens, DFromInt(cost)) >= 0
\* An admission that takes what tokens there are from a request it denies.
TbAdmitDrain(s, cost) ==
  IF TbAllowed(s, cost) THEN [s EXCEPT !.tokens = DSub(@, DFromInt(cost))]
  ELSE [s EXCEPT !.tokens = DZero]
\* An admission that takes no tokens from the bucket.
TbAdmitFree(s, cost) == s
\* if (s.tokens >= cost) s.tokens -= cost
TbAdmit(s, cost) ==
  IF TbAllowed(s, cost) THEN [s EXCEPT !.tokens = DSub(@, DFromInt(cost))] ELSE s

\* A retryAfter computed from tokens - cost: Math.ceil of the negated quotient.
TbRetryAfterNegated(cfg, s, cost) ==
  0 - DFloor(DDiv(DSub(DFromInt(cost), s.tokens), cfg.refillPerMs))

\* const needed = cost - s.tokens;
\* retryAfter = refillPerMs > 0 ? Math.ceil(needed / refillPerMs) : undefined
TbRetryAfter(cfg, s, cost) ==
  DCeil(DDiv(DSub(DFromInt(cost), s.tokens), cfg.refillPerMs))

\* const ttlMs = Math.max(1000, Math.ceil((capacity / refillPerMs) + 1000)):
\* a value of capacity and refillPerMs alone, the same at every call, kept with
\* the configuration (BucketTtl)
TbTtl(cfg) == cfg.ttlMs

\* tokenBucket(config).compute(state, cost, now)
BucketCompute(cfg, state, cost, now) ==
  LET s0 == IF IsNullish(state) THEN TbFresh(cfg, now) ELSE state
      s1 == TbRefill(cfg, s0, now)
      allowed == TbAllowed(s1, cost)
      s == TbAdmit(s1, cost)
  IN [state |-> s,
      result |-> [allowed |-> allowed,
                  limit |-> cfg.limit,
                  remaining |-> Max(0, DFloor(s.tokens)),
                  reset |-> CeilDiv(now + 1000, 1000),
                  hasRetryAfter |-> ~allowed /\ DCmp(cfg.refillPerMs, DZero) > 0,
                  retryAfter |-> IF allowed THEN 0 ELSE TbRetryAfter(cfg, s1, cost)],
      ttlMs |-> TbTtl(cfg)]

\* algorithm.compute(state, cost, now)
Compute(cfg, state, cost, now) ==
  IF cfg.name = "sliding" THEN SlidingCompute(cfg, state, cost, now)
  ELSE BucketCompute(cfg, state, cost, now)

\* ------------------------------------------------------------- the state
VARIABLES
  opts,     \* RatelimitOptions of the limiter: algorithm, store kind, namespace
  clock,    \* what Date.now() returns
  heap,     \* the JavaScript state objects, by reference (algorithms mutate them in place)
  map,      \* memoryStore: the Map  key -> { state (a reference), expiresAt }
  redis,    \* redisStore: the server's keyspace  key -> { value, expiresAt }
  calls,    \* the limit calls in flight, by slot
  ev,       \* the step that was taken last and what it observed
  burst,    \* per key: the run of cost-1 calls evaluated at the current instant
  log       \* what the direct callers of a store or a constructor did last, per key

vars == <<opts, clock, heap, map, redis, calls, ev, burst, log>>

\* Nothing has been recorded.
NoLog == <<>>

\* The values Date.now() takes.
Times == {500 * i : i \in 0..MaxTick}

\* Request contexts; the key function of the modelled limiters is (ctx) => ctx.id
Ctxs == {"u1"}
KeyFn(ctx) == ctx

\* this.namespace = opts.namespace ?? 'default'
Undefined == "<undefined>"
Namespace(o) == IF o.namespace = Undefined THEN "default" ELSE o.namespace

\* A limiter that keys the store by keyFn(ctx) alone.
FullKeyBare(o, ctx) == KeyFn(ctx)

\* const key = `${this.namespace}:${this.keyFn(ctx)}`
FullKey(o, ctx) == Namespace(o) \o ":" \o KeyFn(ctx)

\* redisStore: const fullKey = `${namespace}:${key}` with namespace = 'rl'
RedisKey(key) == "rl" \o ":" \o key

\* The configurations the limiter is constructed with.
Configs ==
  {SlidingCfg(l, 1000) : l \in 1..MaxLimit} \cup {BucketCfg(c, 1) : c \in 1..MaxLimit}
Options ==
  {[algorithm |-> a, store |-> st, namespace |-> ns] :
     a \in Configs, st \in {"memory", "redis"}, ns \in {Undefined}}
     \cup {[algorithm |-> SlidingCfg(1, 1000), store |-> "memory", namespace |-> "custom"]}

\* What the cost function of the modelled limiters may return.
RawCosts ==
  {Num(t) : t \in {10 * i : i \in (-MaxRawCost)..MaxRawCost}}
    \cup {Num(5), Num(27), Num(-5)} \cup {NaN, PosInf, NegInf}
\* The returns after which limit hands the algorithm a finite cost (in units).
FiniteRawCosts == {r \in RawCosts : IsFinite(NormalizeCost(r))}
CostUnits(raw) == NormalizeCost(raw).v \div 10

\* --------------------------------------------------------------- the heap
Slots == 1..NumCalls
Refs == 1..(Cardinality(Ctxs) + NumCalls)
NoRef == 0
Free == [free |-> TRUE]
IsFree(h, r) == "free" \in DOMAIN h[r]
\* new object: the lowest reference not in use
Alloc(h) == CHOOSE r \in Refs : IsFree(h, r) /\ \A q \in Refs : q < r => ~IsFree(h, q)
\* The state a reference stands for; undefined is Absent.
Deref(h, r) == IF r = NoRef THEN Absent ELSE h[r]
\* Objects nothing refers to any more are collected.
Live(m, cs) == {m[k].state : k \in DOMAIN m} \cup {cs[c].ref : c \in DOMAIN cs}
Collect(h, m, cs) == [r \in Refs |-> IF r \in Live(m, cs) THEN h[r] ELSE Free]

\* ---------------------------------------------------------- memoryStore
\* function cleanup(now) { for (const [k, v] of map) if (v.expiresAt <= now) map.delete(k) }
Cleanup(m, now) == [k \in {q \in DOMAIN m : m[q].expiresAt > now} |-> m[k]]

\* A load that never deletes and takes an entry as live up to and including
\* its expiry time.
MemLoadLate(m, key, now) ==
  IF key \notin DOMAIN m THEN [map |-> m, ref |-> NoRef]
  ELSE IF m[key].expiresAt < now THEN [map |-> m, ref |-> NoRef]
       ELSE [map |-> m, ref |-> m[key].state]

\* async load(key): the map after the call and the reference returned (NoRef: undefined)
MemLoad(m, key, now) ==
  LET m1 == Cleanup(m, now)
  IN IF key \notin DOMAIN m1 THEN [map |-> m1, ref |-> NoRef]
     ELSE IF m1[key].expiresAt <= now
          THEN [map |-> [k \in DOMAIN m1 \ {key} |-> m1[k]], ref |-> NoRef]
          ELSE [map |-> m1, ref |-> m1[key].state]

\* A save that writes the entry under every key the map holds.
MemSaveAll(m, key, ref, ttlMs, now) ==
  LET m1 == Cleanup(m, now)
  IN [k \in DOMAIN m1 \cup {key} |-> [state |-> ref, expiresAt |-> now + ttlMs]]

\* A save that takes ttlMs <= 0 as "no expiry".
MemSaveForever(m, key, ref, ttlMs, now) ==
  LET m1 == Cleanup(m, now)
      expiresAt == IF ttlMs <= 0 THEN now + 1000000000 ELSE now + ttlMs
  IN [k \in DOMAIN m1 \cup {key} |->
        IF k = key THEN [state |-> ref, expiresAt |-> expiresAt] ELSE m1[k]]

\* async save(key, state, ttlMs)
MemSave(m, key, ref, ttlMs, now) ==
  LET m1 == Cleanup(m, now)
  IN [k \in DOMAIN m1 \cup {key} |->
        IF k = key THEN [state |-> ref, expiresAt |-> now + ttlMs] ELSE m1[k]]

\* A reset that clears the whole map.
MemResetAll(m, key) == <<>>

\* async reset(key)
MemReset(m, key) == [k \in DOMAIN m \ {key} |-> m[k]]

\* ----------------------------------------------------------- redisStore
\* The server drops a key whose expiry has passed.
RedisPurge(rs, now) == [k \in {q \in DOMAIN rs : rs[q].expiresAt > now} |-> rs[k]]
\* TTL key, in seconds as the server rounds it
RedisTtl(rs, k, now) == (rs[k].expiresAt - now + 500) \div 1000

\* loadScript: GET; if data and TTL > 0 return data, else DEL and return nil
RedisLoadScript(rs, k, now) ==
  LET r1 == RedisPurge(rs, now)
  IN IF k \notin DOMAIN r1 THEN [redis |-> r1, data |-> Absent]
     ELSE IF RedisTtl(r1, k, now) > 0
          THEN [redis |-> r1, data |-> r1[k].value]
          ELSE [redis |-> [q \in DOMAIN r1 \ {k} |-> r1[q]], data |-> Absent]

\* A save script that leaves a value that is already there (SET ... NX).
RedisSaveScriptNX(rs, k, value, ttlMs, now) ==
  LET r1 == RedisPurge(rs, now)
      ttlSec == CeilDiv(ttlMs, 1000)
  IN IF k \in DOMAIN r1 THEN r1
     ELSE IF ttlSec <= 0 THEN r1
     ELSE [q \in DOMAIN r1 \cup {k} |->
             IF q = k THEN [value |-> value, expiresAt |-> now + ttlSec * 1000] ELSE r1[q]]

\* saveScript: SET key value; EXPIRE key ceil(ttlMs / 1000)
RedisSaveScript(rs, k, value, ttlMs, now) ==
  LET r1 == RedisPurge(rs, now)
      ttlSec == CeilDiv(ttlMs, 1000)
  IN IF ttlSec <= 0 THEN [q \in DOMAIN r1 \ {k} |-> r1[q]]
     ELSE [q \in DOMAIN r1 \cup {k} |->
             IF q = k THEN [value |-> value, expiresAt |-> now + ttlSec * 1000] ELSE r1[q]]

\* ------------------------------------------------------- Ratelimit.limit
NoResult ==
  [allowed |-> FALSE, limit |-> 0, remaining |-> 0, reset |-> 0,
   hasRetryAfter |-> FALSE, retryAfter |-> 0]

\* One store operation a limit call performed.
StoreOp(op, key, ttlMs) == [op |-> op, key |-> key, ttlMs |-> ttlMs]

\* A slot with no limit call in it.
IdleCall ==
  [pc |-> "idle", ctx |-> "", key |-> "", now |-> 0, cost |-> 0, ref |-> NoRef,
   loadedAbsent |-> FALSE, loaded |-> Absent, result |-> NoResult, ttlMs |-> 0,
   ops |-> <<>>, reply |-> Absent, turn |-> 0]

InFlight(c) == calls[c].pc # "idle"

NoEvent ==
  [type |-> "none", ctx |-> "", key |-> "", now |-> 0, cost |-> 0,
   loadedAbsent |-> FALSE, loaded |-> Absent, result |-> NoResult, ttlMs |-> 0,
   ops |-> <<>>, failedOp |-> "", admitted |-> 0, back |-> FALSE,
   prevRemaining |-> 0, windowSum |-> 0, retried |-> 0 - 1, raw |-> NaN, norm |-> NaN,
   dropped |-> Absent]

\* The cost admitted by a returning call and by the calls that returned directly
\* before it, one after the other, all for its key and all having loaded absent
\* state (no call started between their returns: they were in flight together).
Admitted(call) ==
  (IF call.result.allowed THEN call.cost ELSE 0)
    + (IF ev.type = "return" /\ ev.key = call.key /\ ev.loadedAbsent /\ call.loadedAbsent
       THEN ev.admitted ELSE 0)

\* What a call leaves in ev when its save has run ("saved") and when it settles
\* ("return" or "reject").
EndEvent(type, call, failedOp) ==
  [NoEvent EXCEPT !.type = type, !.ctx = call.ctx, !.key = call.key, !.now = call.now,
                  !.cost = call.cost, !.loadedAbsent = call.loadedAbsent,
                  !.loaded = call.loaded, !.result = call.result, !.ttlMs = call.ttlMs,
                  !.ops = call.ops, !.failedOp = failedOp,
                  !.admitted = IF type = "return" THEN Admitted(call) ELSE 0]

\* Per key, the run of limit calls evaluated at the current instant
\* (now = clock): the number of calls that have returned a decision (counted up
\* to BurstCap) while they all were cost-1 calls, the first of them on absent
\* state, with no call of an earlier instant returning and no call rejected in
\* between; NoBurst once that is not so.  A tick starts the count again, and so
\* does a call whose load reads a later time than its now.
BurstCap == MaxLimit + 1
NoBurst == 0 - 1
BurstAfter(b, call) ==
  IF b # NoBurst /\ call.now = clock /\ call.cost = 1 /\ (b = 0 => call.loadedAbsent)
  THEN Min(BurstCap, b + 1)
  ELSE NoBurst

RECURSIVE SumCost(_, _)
SumCost(cs, S) ==
  IF S = {} THEN 0
  ELSE LET c == CHOOSE x \in S : TRUE IN cs[c].cost + SumCost(cs, S \ {c})
MaxOf(S) == CHOOSE x \in S : \A y \in S : y <= x
\* The largest sliding-window count held anywhere.
TopCount ==
  MaxOf({0} \cup {heap[r].count : r \in {q \in Refs : "count" \in DOMAIN heap[q]}}
            \cup {redis[k].value.json.count :
                    k \in {q \in DOMAIN redis : "count" \in DOMAIN redis[q].value.json}})
\* A call of this cost may start: no count is driven beyond MaxCount.
CountRoom(cost) ==
  opts.algorithm.name = "sliding" =>
    TopCount + SumCost(calls, {c \in Slots : InFlight(c)}) + cost <= MaxCount

\* JSON.stringify(state) and JSON.parse(text): the text is kept as the value it
\* denotes; every number of a state is a finite double, which JSON.stringify
\* writes with digits that parse back to the same double.
Stringify(st) == [json |-> st]
Parse(text) == text.json

\* What the store holds for a key (Absent: nothing).
PersistedState(key) ==
  IF opts.store = "memory"
  THEN IF key \in DOMAIN map THEN heap[map[key].state] ELSE Absent
  ELSE IF RedisKey(key) \in DOMAIN redis THEN Parse(redis[RedisKey(key)].value) ELSE Absent

\* The continuations that are ready to run (of limit after a store call settled,
\* of a store call after its reply) run in the order they were queued, the
\* microtask queue: turn is a call's place in that order, 1 for the next to
\* run and 0 for a call that is not queued.  A call waiting for a reply of the
\* Redis server is not queued.
Queued(cs) == {d \in Slots : cs[d].turn > 0}
Unqueue(cs, c) ==
  [d \in Slots |->
     IF d = c THEN [cs[d] EXCEPT !.turn = 0]
     ELSE IF cs[c].turn > 0 /\ cs[d].turn > cs[c].turn THEN [cs[d] EXCEPT !.turn = @ - 1]
     ELSE cs[d]]
Enqueue(cs, c) ==
  LET rest == Unqueue(cs, c)
  IN [rest EXCEPT ![c].turn = Cardinality(Queued(rest)) + 1]

\* The state of the entry that memoryStore.load finds expired for the key at the
\* time at and deletes (Absent: it finds none).
Dropped(m, h, key, at) ==
  IF key \in DOMAIN m /\ m[key].expiresAt <= at THEN h[m[key].state] ELSE Absent

\* limit(ctx), up to the first await: now, key, cost, and store.load(key) is called.
\* memoryStore.load runs to its end at once; redisStore.load sends the script.
\* The clock is read twice: now = Date.now() in limit and, after key() and
\* cost() have run, Date.now() in memoryStore.load, which may return a later
\* time, at.  redisStore.load reads no clock.  A new call takes the lowest idle
\* slot.  o: the options of the limiter called.
StartCall(o, c, ctx, raw, at) ==
  LET key == FullKey(o, ctx)
      cost == CostUnits(raw)
      base == [IdleCall EXCEPT !.ctx = ctx, !.key = key, !.now = clock, !.cost = cost,
                               !.ops = <<StoreOp("load", key, 0)>>]
      started == [NoEvent EXCEPT !.type = "start", !.key = key, !.now = clock,
                                 !.cost = cost]
  IN /\ calls[c].pc = "idle"
     /\ \A d \in Slots : d < c => InFlight(d)
     /\ raw \in FiniteRawCosts
     /\ CountRoom(cost)
     /\ at >= clock
     /\ IF o.store = "memory"
        THEN LET ld == MemLoad(map, key, at)
                 cs == Enqueue([calls EXCEPT ![c] =
                                  [base EXCEPT !.pc = "loaded", !.ref = ld.ref,
                                               !.loadedAbsent = (ld.ref = NoRef)]], c)
             IN /\ map' = ld.map
                /\ calls' = cs
                /\ heap' = Collect(heap, ld.map, cs)
                /\ ev' = [started EXCEPT !.loadedAbsent = (ld.ref = NoRef),
                                         !.dropped = Dropped(map, heap, key, at)]
        ELSE /\ at = clock
             /\ calls' = [calls EXCEPT ![c] = [base EXCEPT !.pc = "load_sent"]]
             /\ ev' = started
             /\ UNCHANGED <<map, heap>>
     /\ clock' = at
     /\ burst' = IF at > clock THEN [k \in DOMAIN burst |-> 0] ELSE burst
     /\ UNCHANGED <<opts, redis>>
\* limit(ctx) of the limiter
Start(c, ctx, raw, at) == StartCall(opts, c, ctx, raw, at) /\ UNCHANGED log

\* The call after algorithm.compute(state, cost, now), acting on the object r.
Computed(call, out, r, st) ==
  [call EXCEPT !.ref = r, !.loaded = st, !.result = out.result, !.ttlMs = out.ttlMs]

\* limit resumes after await store.load with memoryStore: compute changes the
\* loaded object in place (or makes a new one), memoryStore.save runs to its end,
\* and limit waits at await store.save.  st is the state loaded, out what compute
\* returned.
MemorySave(c, st, out) ==
  LET call == calls[c]
      r == IF call.ref = NoRef THEN Alloc(heap) ELSE call.ref
      h1 == [heap EXCEPT ![r] = out.state]
      m1 == MemSave(map, call.key, r, out.ttlMs, clock)
      done == [Computed(call, out, r, st) EXCEPT
                 !.pc = "saved",
                 !.ops = Append(@, StoreOp("save", call.key, out.ttlMs))]
      cs == Enqueue([calls EXCEPT ![c] = done], c)
  IN /\ map' = m1
     /\ calls' = cs
     /\ heap' = Collect(h1, m1, cs)
     /\ ev' = EndEvent("saved", done, "")
     /\ UNCHANGED redis

\* limit resumes after await store.load with redisStore: compute changes the
\* parsed object in place (or makes a new one), redisStore.save sends the save
\* script and waits at await client.eval, limit at await store.save.
RedisSend(c, st, out) ==
  LET call == calls[c]
      r == IF call.ref = NoRef THEN Alloc(heap) ELSE call.ref
      sent == [Computed(call, out, r, st) EXCEPT
                 !.pc = "save_sent",
                 !.ops = Append(@, StoreOp("save", call.key, out.ttlMs))]
      cs == Unqueue([calls EXCEPT ![c] = sent], c)
  IN /\ calls' = cs
     /\ heap' = Collect([heap EXCEPT ![r] = out.state], map, cs)
     /\ ev' = [NoEvent EXCEPT !.type = "computed"]
     /\ UNCHANGED <<map, redis>>

\* const state = await this.store.load(key): limit resumes with what load
\* returned, calls algorithm.compute and store.save, up to the next await.
Computing(c, st, out) ==
  IF opts.store = "memory" THEN MemorySave(c, st, out) ELSE RedisSend(c, st, out)
Resume(c) ==
  /\ calls[c].pc = "loaded"
  /\ calls[c].turn = 1
  /\ Computing(c, Deref(heap, calls[c].ref),
               Compute(opts.algorithm, Deref(heap, calls[c].ref), calls[c].cost,
                       calls[c].now))
  /\ UNCHANGED <<opts, log, clock, burst>>

\* await this.store.save(key, newState, ttlMs); return { ...result, now }:
\* limit resumes after store.save returned and returns the result.
Return(c) ==
  /\ calls[c].pc = "saved"
  /\ calls[c].turn = 1
  /\ LET call == calls[c]
         cs == [Unqueue(calls, c) EXCEPT ![c] = IdleCall]
     IN /\ calls' = cs
        /\ heap' = Collect(heap, map, cs)
        /\ ev' = EndEvent("return", call, "")
        /\ burst' = [burst EXCEPT ![call.key] = BurstAfter(@, call)]
  /\ UNCHANGED <<opts, log, clock, map, redis>>

\* A limit that calls store.load a second time when the first call rejects.
RejectRetry(c) ==
  /\ calls[c].pc \in {"load_failed", "save_failed"}
  /\ calls[c].turn = 1
  /\ IF calls[c].pc = "load_failed" /\ Len(calls[c].ops) < 2
     THEN /\ calls' = [Unqueue(calls, c) EXCEPT
                         ![c] = [calls[c] EXCEPT
                                   !.pc = "load_sent", !.reply = Absent, !.turn = 0,
                                   !.ops = Append(@, StoreOp("load", calls[c].key, 0))]]
          /\ ev' = [NoEvent EXCEPT !.type = "retry"]
          /\ UNCHANGED <<heap, burst>>
     ELSE LET call == calls[c]
              cs == [Unqueue(calls, c) EXCEPT ![c] = IdleCall]
          IN /\ calls' = cs
             /\ heap' = Collect(heap, map, cs)
             /\ ev' = EndEvent("reject", [call EXCEPT !.result = NoResult],
                               IF call.pc = "load_failed" THEN "load" ELSE "save")
             /\ burst' = [burst EXCEPT ![call.key] = NoBurst]
  /\ UNCHANGED <<opts, log, clock, map, redis>>

\* The promise of store.load or store.save is rejected: limit has no catch, it
\* rejects with the store's error at its await.
Reject(c) ==
  /\ calls[c].pc \in {"load_failed", "save_failed"}
  /\ calls[c].turn = 1
  /\ LET call == calls[c]
         cs == [Unqueue(calls, c) EXCEPT ![c] = IdleCall]
     IN /\ calls' = cs
        /\ heap' = Collect(heap, map, cs)
        /\ ev' = EndEvent("reject", [call EXCEPT !.result = NoResult],
                          IF call.pc = "load_failed" THEN "load" ELSE "save")
        /\ burst' = [burst EXCEPT ![call.key] = NoBurst]
  /\ UNCHANGED <<opts, log, clock, map, redis>>

\* The server runs the load script of a call; the reply is on its way.
RedisRunLoad(c) ==
  /\ calls[c].pc = "load_sent"
  /\ LET ld == RedisLoadScript(redis, RedisKey(calls[c].key), clock)
     IN /\ redis' = ld.redis
        /\ calls' = [calls EXCEPT ![c].pc = "load_run", ![c].reply = ld.data]
  /\ ev' = [NoEvent EXCEPT !.type = "script"]
  /\ UNCHANGED <<opts, log, clock, map, heap, burst>>

\* if (!result) return undefined; return JSON.parse(result)
RedisReply(c) == IF IsAbsent(calls[c].reply) THEN Absent ELSE Parse(calls[c].reply)
\* The reply reaches the client: redisStore.load resumes after await client.eval
\* and returns undefined or the parsed state, a new object; limit's continuation
\* is queued.
RedisLoadOk(c) ==
  /\ calls[c].pc = "load_run"
  /\ LET st == RedisReply(c)
         r == IF IsAbsent(st) THEN NoRef ELSE Alloc(heap)
         cs == Enqueue([calls EXCEPT ![c].pc = "loaded", ![c].ref = r,
                                     ![c].loadedAbsent = IsAbsent(st),
                                     ![c].reply = Absent], c)
     IN /\ calls' = cs
        /\ heap' = IF IsAbsent(st) THEN heap ELSE [heap EXCEPT ![r] = st]
  /\ ev' = [NoEvent EXCEPT !.type = "loaded"]
  /\ UNCHANGED <<opts, log, clock, map, redis, burst>>

\* client.eval rejects, before or after the server ran the script: the catch of
\* redisStore.load throws 'Redis load failed'; limit's continuation is queued.
RedisLoadFail(c) ==
  /\ calls[c].pc \in {"load_sent", "load_run"}
  /\ calls' = Enqueue([calls EXCEPT ![c].pc = "load_failed", ![c].reply = Absent], c)
  /\ ev' = [NoEvent EXCEPT !.type = "failed"]
  /\ UNCHANGED <<opts, log, clock, map, redis, heap, burst>>

\* The server runs the save script of a call; the reply is on its way.
RedisRunSave(c) ==
  /\ calls[c].pc = "save_sent"
  /\ LET call == calls[c]
     IN /\ redis' = RedisSaveScript(redis, RedisKey(call.key), Stringify(heap[call.ref]),
                                    call.ttlMs, clock)
        /\ calls' = [calls EXCEPT ![c].pc = "save_run"]
        /\ ev' = EndEvent("saved", call, "")
  /\ UNCHANGED <<opts, log, clock, map, heap, burst>>

\* The reply reaches the client: redisStore.save resumes after await client.eval
\* and returns; limit's continuation is queued.
RedisSaveOk(c) ==
  /\ calls[c].pc = "save_run"
  /\ calls' = Enqueue([calls EXCEPT ![c].pc = "saved"], c)
  /\ ev' = [NoEvent EXCEPT !.type = "stored"]
  /\ UNCHANGED <<opts, log, clock, map, redis, heap, burst>>

\* client.eval rejects, before or after the server ran the script: the catch of
\* redisStore.save throws 'Redis save failed'; limit's continuation is queued.
RedisSaveFail(c) ==
  /\ calls[c].pc \in {"save_sent", "save_run"}
  /\ calls' = Enqueue([calls EXCEPT ![c].pc = "save_failed"], c)
  /\ ev' = [NoEvent EXCEPT !.type = "failed"]
  /\ UNCHANGED <<opts, log, clock, map, redis, heap, burst>>

\* Time passes.
Tick(t) ==
  /\ t > clock
  /\ clock' = t
  /\ ev' = [NoEvent EXCEPT !.type = "tick"]
  /\ burst' = [k \in DOMAIN burst |-> 0]
  /\ UNCHANGED <<opts, log, heap, map, redis, calls>>

Init ==
  /\ opts \in Options
  /\ clock = 0
  /\ heap = [r \in Refs |-> Free]
  /\ map = <<>>
  /\ redis = <<>>
  /\ calls = [c \in Slots |-> IdleCall]
  /\ ev = NoEvent
  /\ burst = [k \in {FullKey(opts, x) : x \in Ctxs} |-> 0]
  /\ log = NoLog

\* The steps of limit calls in the slots S, with the cost function returning
\* one of raws and the clock taking the values T.
Step(S, raws, T) ==
  \/ \E t \in T : Tick(t)
  \/ \E c \in S, ctx \in Ctxs, raw \in raws, at \in T : Start(c, ctx, raw, at)
  \/ \E c \in S : Resume(c)
  \/ \E c \in S : Return(c)
  \/ \E c \in S : RedisRunLoad(c)
  \/ \E c \in S : RedisLoadOk(c)
  \/ \E c \in S : RedisLoadFail(c)
  \/ \E c \in S : RedisRunSave(c)
  \/ \E c \in S : RedisSaveOk(c)
  \/ \E c \in S : RedisSaveFail(c)
  \/ \E c \in S : Reject(c)

\* Calls one after the other: each limit call has settled before the next starts.
Next == Step({1}, RawCosts, Times)
Spec == Init /\ [][Next]_vars

\* The first half of the clock's values: no entry expires that early.
EarlyTimes == {t \in Times : t <= 500 * (MaxTick \div 2)}
\* Up to NumCalls calls in flight at once, of cost 0, 1 or 2, at the first two of
\* the clock's values, the store never failing and the limit or capacity
\* MaxLimit.
OverlapTimes == {t \in Times : t <= 500 * (MaxTick \div 4)}
OverlapNext ==
  \/ \E t \in OverlapTimes : Tick(t)
  \/ \E c \in Slots, ctx \in Ctxs, raw \in {Num(-10), Num(10), Num(20)}, at \in OverlapTimes :
       Start(c, ctx, raw, at)
  \/ \E c \in Slots : Resume(c)
  \/ \E c \in Slots : Return(c)
  \/ \E c \in Slots : RedisRunLoad(c)
  \/ \E c \in Slots : RedisLoadOk(c)
  \/ \E c \in Slots : RedisRunSave(c)
  \/ \E c \in Slots : RedisSaveOk(c)
OverlapInit == Init /\ opts.algorithm.limit = MaxLimit /\ opts.namespace = Undefined
OverlapSpec == OverlapInit /\ [][OverlapNext]_vars

\* ------------------------------------------------------------- two keys
\* Calls one after the other for two request contexts, hence two fully-qualified
\* keys in one store, of cost 1 or 2, the store never failing and the limit or
\* capacity 1.
KeyCtxs == {"u1", "u2"}

\* What store.load(key) would return at time t: the state, or Absent.
LoadAt(key, t) ==
  IF opts.store = "memory"
  THEN Deref(heap, MemLoad(map, key, t).ref)
  ELSE LET data == RedisLoadScript(redis, RedisKey(key), t).data
       IN IF IsAbsent(data) THEN Absent ELSE Parse(data)

KeyInit ==
  /\ opts \in {o \in Options : o.namespace = Undefined /\ o.algorithm.limit = 1}
  /\ clock = 0
  /\ heap = [r \in Refs |-> Free]
  /\ map = <<>>
  /\ redis = <<>>
  /\ calls = [c \in Slots |-> IdleCall]
  /\ ev = NoEvent
  /\ burst = [k \in {FullKey(opts, x) : x \in KeyCtxs} |-> 0]
  /\ log = NoLog

KeyNext ==
  \/ \E t \in Times : Tick(t)
  \/ \E ctx \in KeyCtxs, raw \in {Num(10), Num(20)}, at \in Times : Start(1, ctx, raw, at)
  \/ Resume(1)
  \/ Return(1)
  \/ RedisRunLoad(1)
  \/ RedisLoadOk(1)
  \/ RedisRunSave(1)
  \/ RedisSaveOk(1)
KeySpec == KeyInit /\ [][KeyNext]_vars

\* ------------------------------------------- the algorithms on their own
\* algorithm.compute called directly, again and again on the state it returned
\* (the object heap[1]), with any cost and any now, in any order.  ev keeps the
\* state before the call (loaded), the decision, whether now is earlier than
\* the previous call's (back) and the remaining the previous call reported,
\* the sum of the costs of the calls made one after the other with a now in this
\* call's window (windowSum), and, when the previous call was denied and this
\* one comes exactly its retryAfter later, the cost that was denied (retried).
AlgConfigs ==
  {SlidingCfg(l, w) : l \in 1..MaxLimit, w \in {500, 1000}}
    \cup {BucketCfg(c, r) : c \in 1..MaxLimit, r \in {1, 2}}
AlgTimes == {250 * i : i \in 0..(2 * MaxTick)}
\* The times of the calls on a token bucket: the half seconds and two times off
\* them, where needed / refillPerMs is not a whole number in double precision.
BucketTimes == {t \in AlgTimes : t % 500 = 0} \cup {100, 999}
ComputeTimes(cfg) == IF cfg.name = "tokenBucket" THEN BucketTimes ELSE AlgTimes
NoRetry == 0 - 1

AlgInit ==
  /\ opts \in {[algorithm |-> a, store |-> "memory", namespace |-> Undefined] :
                 a \in AlgConfigs}
  /\ clock = 0
  /\ heap = [r \in Refs |-> Free]
  /\ map = <<>>
  /\ redis = <<>>
  /\ calls = [c \in Slots |-> IdleCall]
  /\ ev = NoEvent
  /\ burst = [k \in {FullKey(opts, x) : x \in Ctxs} |-> 0]
  /\ log = NoLog

\* What a direct call of compute leaves: st the state passed in, out what
\* compute returned.
AlgRecord(cost, now, st, out) ==
  /\ heap' = [heap EXCEPT ![1] = out.state]
  /\ ev' = [NoEvent EXCEPT !.type = "compute", !.now = now, !.cost = cost,
                           !.loadedAbsent = IsAbsent(st), !.loaded = st,
                           !.result = out.result, !.ttlMs = out.ttlMs,
                           !.back = (ev.type = "compute" /\ now < ev.now),
                           !.prevRemaining =
                              IF ev.type = "compute" THEN ev.result.remaining ELSE 0,
                           !.windowSum =
                              IF opts.algorithm.name # "sliding" THEN 0
                              ELSE cost +
                                (IF /\ ev.type = "compute"
                                    /\ CurWindowStart(opts.algorithm, ev.now)
                                         = CurWindowStart(opts.algorithm, now)
                                 THEN ev.windowSum ELSE 0),
                           !.retried =
                              IF /\ ev.type = "compute" /\ ev.result.hasRetryAfter
                                 /\ now = ev.now + ev.result.retryAfter
                              THEN ev.cost ELSE NoRetry]
  /\ UNCHANGED <<opts, log, clock, map, redis, calls, burst>>

\* The sliding-window counts are kept within MaxCount.
AlgApply(cost, now, st, out) ==
  /\ opts.algorithm.name = "sliding" => out.state.count <= MaxCount
  /\ AlgRecord(cost, now, st, out)

\* const out = algorithm.compute(state, cost, now), on the state the call before
\* returned
AlgState == IF IsFree(heap, 1) THEN Absent ELSE heap[1]
AlgCompute(cost, now) ==
  AlgApply(cost, now, AlgState, Compute(opts.algorithm, AlgState, cost, now))

\* The state is dropped: the next call is on absent state.
AlgForget ==
  /\ ~IsFree(heap, 1)
  /\ heap' = [heap EXCEPT ![1] = Free]
  /\ ev' = [NoEvent EXCEPT !.type = "forget"]
  /\ UNCHANGED <<opts, log, clock, map, redis, calls, burst>>

AlgNext ==
  \/ \E cost \in 0..MaxRawCost, now \in ComputeTimes(opts.algorithm) :
       AlgCompute(cost, now)
  \/ AlgForget
AlgSpec == AlgInit /\ [][AlgNext]_vars

\* ------------------------------------- the weight of the previous window
\* compute called directly on sliding windows of limit 7 and 15 with costs up to
\* 25, at times 280 and 560 ms before the close of a second: the previous count
\* is large enough for s.prevCount * weight to be rounded (25 * 0.28 and
\* 25 * 0.56 are not 7 and 14 in double precision).
RollConfigs == {SlidingCfg(l, 1000) : l \in {7, 15}}
RollCosts == {0, 1, 25}
RollTimes == {0, 1000, 1440, 1720}

RollInit ==
  /\ opts \in {[algorithm |-> a, store |-> "memory", namespace |-> Undefined] :
                 a \in RollConfigs}
  /\ clock = 0
  /\ heap = [r \in Refs |-> Free]
  /\ map = <<>>
  /\ redis = <<>>
  /\ calls = [c \in Slots |-> IdleCall]
  /\ ev = NoEvent
  /\ burst = [k \in {FullKey(opts, x) : x \in Ctxs} |-> 0]
  /\ log = NoLog

\* The counts are kept within the largest cost and one more.
RollApply(cost, now, st, out) ==
  /\ out.state.count <= MaxOf(RollCosts) + 1
  /\ AlgRecord(cost, now, st, out)
RollCompute(cost, now) ==
  RollApply(cost, now, AlgState, Compute(opts.algorithm, AlgState, cost, now))

RollNext ==
  \/ \E cost \in RollCosts, now \in RollTimes : RollCompute(cost, now)
  \/ AlgForget
RollSpec == RollInit /\ [][RollNext]_vars

\* --------------------------------------------- the cost function's result
\* limit's cost expression applied to what the cost function returned.
FineRawCosts ==
  {Num(t) : t \in (-10 * MaxRawCost)..(10 * MaxRawCost)} \cup {NaN, PosInf, NegInf}

CostInit ==
  /\ opts = [algorithm |-> SlidingCfg(1, 1000), store |-> "memory", namespace |-> Undefined]
  /\ clock = 0
  /\ heap = [r \in Refs |-> Free]
  /\ map = <<>>
  /\ redis = <<>>
  /\ calls = [c \in Slots |-> IdleCall]
  /\ \E raw \in FineRawCosts : ev = [NoEvent EXCEPT !.type = "costFn", !.raw = raw]
  /\ burst = [k \in {FullKey(opts, x) : x \in Ctxs} |-> 0]
  /\ log = NoLog

CostApply ==
  /\ ev.type = "costFn"
  /\ ev' = [ev EXCEPT !.type = "cost", !.norm = NormalizeCost(ev.raw)]
  /\ UNCHANGED <<opts, log, clock, heap, map, redis, calls, burst>>

CostNext == CostApply
CostSpec == CostInit /\ [][CostNext]_vars

\* ------------------------------------------- two limiters, one store
\* Two Ratelimit instances that differ in their namespace only and share one
\* memoryStore; each limit call has returned before the next starts.  The key
\* function returns the request context itself, the limit or capacity is 1 and the clock
\* takes the first half of its values.  log keeps, per store key, the namespaces
\* of the limiters that loaded and saved it.
NsNamespaces == {"a", "a:b"}
NsCtxs == {"c", "b:c"}

\* The options of the limiter with namespace ns.
LimiterOpts(ns) == [opts EXCEPT !.namespace = ns]

\* limit(ctx) of the limiter with namespace ns, with the default cost 1, up to
\* its first await.
NsLimit(ns, ctx, at) ==
  LET key == FullKey(LimiterOpts(ns), ctx)
  IN /\ StartCall(LimiterOpts(ns), 1, ctx, Num(10), at)
     /\ log' = [k \in DOMAIN log \cup {key} |->
                  (IF k \in DOMAIN log THEN log[k] ELSE {})
                    \cup (IF k = key THEN {ns} ELSE {})]

NsInit ==
  Init /\ opts.store = "memory" /\ opts.namespace = Undefined /\ opts.algorithm.limit = 1
NsNext ==
  \/ \E t \in EarlyTimes : Tick(t)
  \/ \E ns \in NsNamespaces, ctx \in NsCtxs, at \in EarlyTimes : NsLimit(ns, ctx, at)
  \/ Resume(1)
  \/ Return(1)
NsSpec == NsInit /\ [][NsNext]_vars

\* ------------------------------------------- memoryStore on its own
\* load, save and reset called directly, one after the other, for two keys, the
\* caller saving one of two objects it holds with any time to live, positive or
\* not.  log keeps, per key, the save or reset called last for it: the object
\* saved, when, with what ttlMs, and whether load would have returned an entry
\* for the key just before.
StoreKeys == {"k1", "k2"}
StoreRefs == {1, 2}
StoreTtls == {0 - 500, 0, 500, 1000}

NoStoreOp == [op |-> "none", ref |-> NoRef, at |-> 0, ttlMs |-> 0, live |-> FALSE]
IsLive(m, key, now) == MemLoad(m, key, now).ref # NoRef

\* await store.save(key, state, ttlMs), state being the object r
StoreSave(key, r, ttlMs) ==
  /\ map' = MemSave(map, key, r, ttlMs, clock)
  /\ ev' = [NoEvent EXCEPT !.type = "save", !.key = key, !.now = clock, !.ttlMs = ttlMs,
                           !.ops = <<StoreOp("save", key, ttlMs)>>]
  /\ log' = [log EXCEPT ![key] = [op |-> "save", ref |-> r, at |-> clock,
                                  ttlMs |-> ttlMs, live |-> IsLive(map, key, clock)]]
  /\ UNCHANGED <<opts, clock, heap, redis, calls, burst>>

\* await store.load(key)
StoreLoad(key) ==
  LET ld == MemLoad(map, key, clock)
  IN /\ map' = ld.map
     /\ ev' = [NoEvent EXCEPT !.type = "load", !.key = key, !.now = clock,
                              !.loadedAbsent = (ld.ref = NoRef),
                              !.loaded = Deref(heap, ld.ref),
                              !.ops = <<StoreOp("load", key, 0)>>]
     /\ UNCHANGED <<opts, log, clock, heap, redis, calls, burst>>

\* await store.reset(key)
StoreReset(key) ==
  /\ map' = MemReset(map, key)
  /\ ev' = [NoEvent EXCEPT !.type = "reset", !.key = key, !.now = clock,
                           !.ops = <<StoreOp("reset", key, 0)>>]
  /\ log' = [log EXCEPT ![key] = [NoStoreOp EXCEPT !.op = "reset", !.at = clock,
                                                   !.live = IsLive(map, key, clock)]]
  /\ UNCHANGED <<opts, clock, heap, redis, calls, burst>>

StoreInit ==
  /\ opts = [algorithm |-> SlidingCfg(1, 1000), store |-> "memory", namespace |-> Undefined]
  /\ clock = 0
  /\ heap = [r \in Refs |-> IF r \in StoreRefs THEN [data |-> r] ELSE Free]
  /\ map = <<>>
  /\ redis = <<>>
  /\ calls = [c \in Slots |-> IdleCall]
  /\ ev = NoEvent
  /\ burst = [k \in StoreKeys |-> 0]
  /\ log = [k \in StoreKeys |-> NoStoreOp]

StoreNext ==
  \/ \E t \in Times : Tick(t)
  \/ \E k \in StoreKeys, r \in StoreRefs, ttlMs \in StoreTtls : StoreSave(k, r, ttlMs)
  \/ \E k \in StoreKeys : StoreLoad(k)
  \/ \E k \in StoreKeys : StoreReset(k)
StoreSpec == StoreInit /\ [][StoreNext]_vars

\* ------------------------------------------------ constructing an algorithm
\* slidingWindow(config) and tokenBucket(config) called with any integers, the
\* non-positive ones included, and compute called on the algorithm constructed
\* last.  log keeps the constructor call made last and whether it threw.
NoAlgorithm ==
  [name |-> "none", limit |-> 0, windowMs |-> 0, refillRatePerSec |-> 0, refillPerMs |-> DZero,
   ttlMs |-> 0]
NoError == ""

\* A validation that lets a limit of 0 through.
SlidingWindowLax(limit, windowMs) ==
  IF limit < 0 THEN [error |-> "limit must be > 0", algorithm |-> NoAlgorithm]
  ELSE IF windowMs <= 0 THEN [error |-> "windowMs must be > 0", algorithm |-> NoAlgorithm]
  ELSE [error |-> NoError, algorithm |-> SlidingCfg(limit, windowMs)]

\* slidingWindow({ limit, windowMs }): the error thrown, or the algorithm returned
SlidingWindow(limit, windowMs) ==
  IF limit <= 0 THEN [error |-> "limit must be > 0", algorithm |-> NoAlgorithm]
  ELSE IF windowMs <= 0 THEN [error |-> "windowMs must be > 0", algorithm |-> NoAlgorithm]
  ELSE [error |-> NoError, algorithm |-> SlidingCfg(limit, windowMs)]

\* tokenBucket({ capacity, refillRatePerSec }): the error thrown, or the algorithm returned
TokenBucket(capacity, rate) ==
  IF capacity <= 0 THEN [error |-> "capacity must be > 0", algorithm |-> NoAlgorithm]
  ELSE IF rate <= 0
       THEN [error |-> "refillRatePerSec must be > 0", algorithm |-> NoAlgorithm]
       ELSE [error |-> NoError, algorithm |-> BucketCfg(capacity, rate)]

CtorLimits == (0 - 1)..1
CtorWindows == {0 - 500, 0, 500}
CtorRates == (0 - 1)..1

\* const algorithm = slidingWindow(...) or tokenBucket(...): a throw leaves
\* everything as it was; a new algorithm starts with no state.
Construct(kind, a, b) ==
  LET made == IF kind = "sliding" THEN SlidingWindow(a, b) ELSE TokenBucket(a, b)
  IN /\ log' = [op |-> "construct", kind |-> kind, a |-> a, b |-> b,
                threw |-> (made.error # NoError), error |-> made.error]
     /\ ev' = [NoEvent EXCEPT !.type = "construct"]
     /\ IF made.error # NoError
        THEN UNCHANGED <<opts, heap>>
        ELSE /\ opts' = [opts EXCEPT !.algorithm = made.algorithm]
             /\ heap' = [heap EXCEPT ![1] = Free]
     /\ UNCHANGED <<clock, map, redis, calls, burst>>

\* algorithm.compute(state, cost, now) on the algorithm constructed last
CtorCompute(cost, now) == opts.algorithm # NoAlgorithm /\ AlgCompute(cost, now)

CtorInit ==
  /\ opts = [algorithm |-> NoAlgorithm, store |-> "memory", namespace |-> Undefined]
  /\ clock = 0
  /\ heap = [r \in Refs |-> Free]
  /\ map = <<>>
  /\ redis = <<>>
  /\ calls = [c \in Slots |-> IdleCall]
  /\ ev = NoEvent
  /\ burst = [k \in {FullKey(opts, x) : x \in Ctxs} |-> 0]
  /\ log = [op |-> "none", kind |-> "", a |-> 0, b |-> 0, threw |-> FALSE,
            error |-> NoError]

CtorNext ==
  \/ \E limit \in CtorLimits, windowMs \in CtorWindows : Construct("sliding", limit, windowMs)
  \/ \E capacity \in CtorLimits, rate \in CtorRates : Construct("tokenBucket", capacity, rate)
  \/ \E cost \in 0..1, now \in EarlyTimes : CtorCompute(cost, now)
CtorSpec == CtorInit /\ [][CtorNext]_vars

\* ---------------------------------------------- redisStore on its own
\* load, save and reset called directly, one after the other, on a server that
\* other clients write to as well: a key may hold a text that is not the JSON of
\* a state.  Each call takes three steps: the call up to its await sends the
\* script, the server runs the script when it arrives, and client.eval settles;
\* it may reject (the transport fails) before or after the script ran.  The
\* other clients and the clock go on in between.  log keeps the call made last:
\* what it sent, whether the server has run its script (ran), the text the
\* server held for the key when the script ran (held), what the script returned
\* (data), whether client.eval rejected and whether the caller still waits.
Text(s) == [text |-> s]
\* Texts another client may have written: not JSON at all, or the JSON of a
\* value that is no state.
InvalidTexts == {Text(""), Text("invalid json{")}
ForeignTexts == InvalidTexts \cup {Text("null"), Text("0"), Text("true"), Text("{}")}
\* The values of JSON texts that are no states: a number, a boolean, an object
\* with no fields.
JsNumber(n) == [number |-> n]
JsBoolean(b) == [boolean |-> b]
EmptyObject == [object |-> <<>>]

\* JSON.parse(text): the value, or a SyntaxError.  The texts are those
\* JSON.stringify wrote for a state and the foreign ones.
JsonParse(text) ==
  IF "json" \in DOMAIN text THEN [threw |-> FALSE, value |-> Parse(text)]
  ELSE CASE text = Text("null") -> [threw |-> FALSE, value |-> Null]
         [] text = Text("0") -> [threw |-> FALSE, value |-> JsNumber(0)]
         [] text = Text("true") -> [threw |-> FALSE, value |-> JsBoolean(TRUE)]
         [] text = Text("{}") -> [threw |-> FALSE, value |-> EmptyObject]
         [] text \in InvalidTexts -> [threw |-> TRUE, value |-> Null]

\* !result  (nil from the script arrives as null; the empty string is falsy too)
Falsy(result) == IsAbsent(result) \/ result = Text("")

\* redisStore.load after client.eval settled:
\*   if (!result) return undefined; return JSON.parse(result);
\*   catch (error) { throw new Error(`Redis load failed: ${error}`) }
RedisLoadReply(rejected, result) ==
  IF rejected THEN [type |-> "reject", tag |-> "load", state |-> Absent]
  ELSE IF Falsy(result) THEN [type |-> "return", tag |-> "", state |-> Absent]
  ELSE IF JsonParse(result).threw THEN [type |-> "reject", tag |-> "load", state |-> Absent]
  ELSE [type |-> "return", tag |-> "", state |-> JsonParse(result).value]

\* resetScript: DEL key
RedisResetScript(rs, k) == [q \in DOMAIN rs \ {k} |-> rs[q]]

RsKeys == {"k1", "k2"}
RsStates ==
  {[windowStart |-> 0, count |-> c, prevStart |-> 0 - 1000, prevCount |-> 0] : c \in 1..2}
RsTtls == {0, 500}

\* What the server holds for a key now (Absent: nothing, or expired).
Held(rs, k, now) ==
  IF k \in DOMAIN RedisPurge(rs, now) THEN rs[k].value ELSE Absent

\* The operation under way or settled last.
RsLog(op, key) ==
  [op |-> op, key |-> key, value |-> Absent, ttlMs |-> 0, ran |-> FALSE,
   held |-> Absent, data |-> Absent, rejected |-> FALSE, pending |-> FALSE]
\* The call has sent its script with the arguments value and ttlMs and waits.
RsSent(op, key, value, ttlMs) ==
  [RsLog(op, key) EXCEPT !.value = value, !.ttlMs = ttlMs, !.pending = TRUE]

\* The call of a method of the store up to await client.eval: the script is on
\* its way to the server.
RsCall(sent) ==
  /\ ~log.pending
  /\ log' = sent
  /\ ev' = [NoEvent EXCEPT !.type = "sent"]
  /\ UNCHANGED <<opts, clock, heap, map, redis, calls, burst>>

\* store.load(key) up to await client.eval
RsLoad(key) == RsCall(RsSent("load", key, Absent, 0))

\* store.save(key, state, ttlMs) up to await client.eval
RsSave(key, st, ttlMs) == RsCall(RsSent("save", key, Stringify(st), ttlMs))

\* store.reset(key) up to await client.eval
RsReset(key) == RsCall(RsSent("reset", key, Absent, 0))

\* The server runs the script of the call that waits, at its own time.
RsRun ==
  LET k == RedisKey(log.key)
      ld == RedisLoadScript(redis, k, clock)
  IN /\ log.pending /\ ~log.ran
     /\ redis' = CASE log.op = "load" -> ld.redis
                    [] log.op = "save" ->
                         RedisSaveScript(redis, k, log.value, log.ttlMs, clock)
                    [] log.op = "reset" -> RedisResetScript(redis, k)
     /\ log' = [log EXCEPT !.ran = TRUE, !.held = Held(redis, k, clock),
                           !.data = IF log.op = "load" THEN ld.data ELSE Absent]
     /\ ev' = [NoEvent EXCEPT !.type = "script"]
     /\ UNCHANGED <<opts, clock, heap, map, calls, burst>>

\* client.eval settles and the store's method resumes after its await: it
\* returns, or rejects with the error tagged with its name.  client.eval
\* resolves with what the script returned; it may reject whether the script has
\* run or not.
RsSettle(rejected) ==
  LET reply == IF log.op = "load" THEN RedisLoadReply(rejected, log.data)
               ELSE [type |-> IF rejected THEN "reject" ELSE "return",
                     tag |-> IF rejected THEN log.op ELSE "", state |-> Absent]
  IN /\ log.pending
     /\ rejected \/ log.ran
     /\ ev' = [NoEvent EXCEPT !.type = reply.type, !.key = log.key, !.now = clock,
                              !.ttlMs = log.ttlMs, !.failedOp = reply.tag,
                              !.loadedAbsent = (/\ log.op = "load" /\ reply.type = "return"
                                                /\ IsAbsent(reply.state)),
                              !.loaded = reply.state,
                              !.ops = <<StoreOp(log.op, log.key, log.ttlMs)>>]
     /\ log' = [log EXCEPT !.pending = FALSE, !.rejected = rejected]
     /\ UNCHANGED <<opts, clock, heap, map, redis, calls, burst>>

\* Another client of the server sets the key to a text of its own, for a second.
ForeignSet(key, text) ==
  /\ redis' = [q \in DOMAIN redis \cup {RedisKey(key)} |->
                 IF q = RedisKey(key) THEN [value |-> text, expiresAt |-> clock + 1000]
                 ELSE redis[q]]
  /\ ev' = [NoEvent EXCEPT !.type = "foreign"]
  /\ log' = IF log.pending THEN log ELSE RsLog("none", key)
  /\ UNCHANGED <<opts, clock, heap, map, calls, burst>>

RsInit ==
  /\ opts = [algorithm |-> SlidingCfg(MaxLimit, 1000), store |-> "redis",
             namespace |-> Undefined]
  /\ clock = 0
  /\ heap = [r \in Refs |-> Free]
  /\ map = <<>>
  /\ redis = <<>>
  /\ calls = [c \in Slots |-> IdleCall]
  /\ ev = NoEvent
  /\ burst = [k \in RsKeys |-> 0]
  /\ log = RsLog("none", "")

RsNext ==
  \/ \E t \in EarlyTimes : Tick(t)
  \/ \E k \in RsKeys : RsLoad(k)
  \/ \E k \in RsKeys, st \in RsStates, ttlMs \in RsTtls : RsSave(k, st, ttlMs)
  \/ \E k \in RsKeys : RsReset(k)
  \/ RsRun
  \/ \E rejected \in BOOLEAN : RsSettle(rejected)
  \/ \E k \in RsKeys, text \in ForeignTexts : ForeignSet(k, text)
RsSpec == RsInit /\ [][RsNext]_vars

\* ------------------------------------------------------------- headers
\* build(result, opts) called with any of the header options given as true,
\* given as false or left out, on decisions with and without a retryAfter and
\* a policy.  log keeps the call made last and the headers it returned.
Digits == <<"0", "1", "2", "3", "4", "5", "6", "7", "8", "9">>
RECURSIVE NatToString(_)
NatToString(n) ==
  IF n < 10 THEN Digits[n + 1] ELSE NatToString(n \div 10) \o Digits[(n % 10) + 1]
\* String(n) for an integer n
String(n) == IF n < 0 THEN "-" \o NatToString(0 - n) ELSE NatToString(n)

\* An option of HeadersOptions: left out, or given.
Unset == [unset |-> TRUE]
Given(b) == [value |-> b]
HeaderOption == {Unset, Given(TRUE), Given(FALSE)}
\* const { name = dflt } = opts
Destructure(o, dflt) == IF "unset" \in DOMAIN o THEN dflt ELSE o.value

NoHeaders == [h \in {} |-> ""]
\* out[name] = value
Put(out, name, value) ==
  [h \in DOMAIN out \cup {name} |-> IF h = name THEN value ELSE out[h]]

\* A Retry-After that rounds down.
RetryAfterFloor(ms) == String(FloorDiv(ms, 1000))

\* String(Math.ceil(result.retryAfter / 1000))
RetryAfterSeconds(ms) == String(CeilDiv(ms, 1000))

\* if (family) { out[prefix + 'RateLimit-Limit'] = ...; ...Remaining...; ...Reset...;
\*               if (result.retryAfter != null) out['Retry-After'] = ... }
PutFamily(out, on, prefix, result) ==
  IF ~on THEN out
  ELSE LET o1 == Put(out, prefix \o "RateLimit-Limit", String(result.limit))
           o2 == Put(o1, prefix \o "RateLimit-Remaining", String(result.remaining))
           o3 == Put(o2, prefix \o "RateLimit-Reset", String(result.reset))
       IN IF result.hasRetryAfter
          THEN Put(o3, "Retry-After", RetryAfterSeconds(result.retryAfter))
          ELSE o3

\* build(result, opts = {}); policy is (result as any).policy, "" when there is none
Build(result, policy, hopts) ==
  LET standard == Destructure(hopts.standard, TRUE)
      legacy == Destructure(hopts.legacy, FALSE)
      withPolicy == Destructure(hopts.policy, FALSE)
      o1 == PutFamily(NoHeaders, standard, "", result)
      o2 == PutFamily(o1, legacy, "X-", result)
  IN IF withPolicy /\ policy # "" THEN Put(o2, "RateLimit-Policy", policy) ELSE o2

\* The decisions build is called on: those of the headers tests, and retryAfter
\* values on and between whole seconds.
HeaderResults ==
  {[allowed |-> TRUE, limit |-> 100, remaining |-> r, reset |-> 1234567890,
    hasRetryAfter |-> FALSE, retryAfter |-> 0] : r \in {1, 95}}
   \cup {[allowed |-> FALSE, limit |-> 100, remaining |-> 0, reset |-> 1234567890,
          hasRetryAfter |-> TRUE, retryAfter |-> ms] : ms \in {0, 1, 1000, 1500, 5000}}
HeaderPolicies == {"", "100;w=60"}
HeadersOptions == [standard : HeaderOption, legacy : HeaderOption, policy : HeaderOption]

HdrBuild(result, policy, hopts) ==
  /\ ev' = [NoEvent EXCEPT !.type = "build", !.result = result]
  /\ log' = [op |-> "build", opts |-> hopts, policy |-> policy,
             out |-> Build(result, policy, hopts)]
  /\ UNCHANGED <<opts, clock, heap, map, redis, calls, burst>>

HdrInit ==
  /\ opts = [algorithm |-> SlidingCfg(1, 1000), store |-> "memory", namespace |-> Undefined]
  /\ clock = 0
  /\ heap = [r \in Refs |-> Free]
  /\ map = <<>>
  /\ redis = <<>>
  /\ calls = [c \in Slots |-> IdleCall]
  /\ ev = NoEvent
  /\ burst = [k \in {FullKey(opts, x) : x \in Ctxs} |-> 0]
  /\ log = [op |-> "none", opts |-> [standard |-> Unset, legacy |-> Unset, policy |-> Unset],
            policy |-> "", out |-> NoHeaders]

HdrNext ==
  \E result \in HeaderResults, policy \in HeaderPolicies, hopts \in HeadersOptions :
    HdrBuild(result, policy, hopts)
HdrSpec == HdrInit /\ [][HdrNext]_vars

\* ---------------------------------------------------------- middleware
\* expressMiddleware and honoMiddleware around one limiter (limit 1, memory or
\* Redis store): a request enters, the middleware awaits limiter.limit (the
\* steps of Ratelimit.limit above), then sets the headers and ends the request.
\* Everything the middleware calls may fail: getContext, the store, setting a
\* header, the caller's denied handler, res.status(429).send, next() and
\* next(err); the denied handler and next() may also return a promise, which
\* settles later.  log is the request in hand: the middleware and its options,
\* what the calls it makes will do, the calls of next ("ok" for next(), "err"
\* for next(err)), the response, how often the caller's denied handler ran and
\* whether the middleware's own promise rejected.
NoResponse == [status |-> 0, body |-> ""]
DefaultDenied == [status |-> 429, body |-> "Too Many Requests"]
\* new Response('Custom Rate Limit Message', { status: 429 }) given as deniedResponse
CustomDenied == [status |-> 429, body |-> "Custom Rate Limit Message"]
\* what a deniedResponse function returns
FunctionDenied == [status |-> 429, body |-> "Function Response"]

\* The result (result as any).policy of a decision limit returned: it has none.
ResultPolicy(result) == ""

\* The policy property of the algorithm object:
\*   slidingWindow: `${limit};w=${Math.round(windowMs/1000)}`
\*   tokenBucket:   `${capacity};w=1;burst=${capacity}`
AlgorithmPolicy(cfg) ==
  IF cfg.name = "sliding"
  THEN NatToString(cfg.limit) \o ";w=" \o NatToString(FloorDiv(cfg.windowMs + 500, 1000))
  ELSE NatToString(cfg.limit) \o ";w=1;burst=" \o NatToString(cfg.limit)

\* const { headers: ho = { standard: true, legacy: false } } = opts
ExpressHeaders(given) ==
  IF given = Unset THEN [standard |-> Given(TRUE), legacy |-> Given(FALSE), policy |-> Unset]
  ELSE given.value
\* const { headers = { standard: true } } = opts
HonoHeaders(given) ==
  IF given = Unset THEN [standard |-> Given(TRUE), legacy |-> Unset, policy |-> Unset]
  ELSE given.value

\* The headers option the middleware of the request hands to build.
MwHeaders(req) ==
  IF req.kind = "express" THEN ExpressHeaders(req.headers) ELSE HonoHeaders(req.headers)

\* What a call made by the middleware does: it returns a value, throws, or
\* returns a promise that resolves or rejects later.
Outcomes == {"returns", "throws", "resolves", "rejects"}
\* What the calls of a request do: getContext (context), res.setHeader or
\* c.header (header), onDenied or the deniedResponse function (handler),
\* res.status(429).send (send), next() (next) and next(err) (nextErr).
Does(context, header, handler, send, next, nextErr) ==
  [context |-> context, header |-> header, handler |-> handler, send |-> send,
   next |-> next, nextErr |-> nextErr]

MwRequestRec(kind, denied, headers, does) ==
  [kind |-> kind, denied |-> denied, headers |-> headers, does |-> does,
   phase |-> "entered", decision |-> "none", nexts |-> <<>>, response |-> NoResponse,
   handled |-> 0, rejected |-> FALSE, out |-> NoHeaders]

\* catch (err) { return next(err as any) }: when next(err) throws in its turn,
\* rl's promise rejects
ExpressCatch(req) ==
  [req EXCEPT !.phase = "done", !.nexts = Append(@, "err"),
              !.rejected = (req.does.nextErr = "throws")]

\* return onDenied(req, res, result) / return next(): a value ends rl, an
\* exception goes to the catch block, a promise is what rl's own promise waits
\* for (a return without await: its rejection does not reach the catch block)
ExpressReturn(req, outcome) ==
  IF outcome = "throws" THEN ExpressCatch(req)
  ELSE IF outcome = "returns" THEN [req EXCEPT !.phase = "done"]
  ELSE [req EXCEPT !.phase = "awaiting"]

\* rl(req, res, next) after await limiter.limit(ctx): header.apply (the first
\* res.setHeader may throw), then onDenied / res.status(429).send('Too Many
\* Requests') / next(); catch: next(err)
ExpressSettle(req, type, result) ==
  IF type = "reject" THEN ExpressCatch([req EXCEPT !.decision = "error"])
  ELSE LET built == Build(result, ResultPolicy(result), ExpressHeaders(req.headers))
           r0 == [req EXCEPT !.decision = IF result.allowed THEN "allowed" ELSE "denied"]
           r1 == [r0 EXCEPT !.out = built]
       IN IF built # NoHeaders /\ req.does.header = "throws" THEN ExpressCatch(r0)
          ELSE IF ~result.allowed
               THEN IF req.denied = "handler"
                    THEN ExpressReturn([r1 EXCEPT !.handled = @ + 1], req.does.handler)
                    ELSE IF req.does.send = "throws" THEN ExpressCatch(r1)
                    ELSE [r1 EXCEPT !.phase = "done", !.response = DefaultDenied]
               ELSE ExpressReturn([r1 EXCEPT !.nexts = Append(@, "ok")], req.does.next)

\* The middleware's promise rejects.
HonoReject(req) == [req EXCEPT !.phase = "done", !.rejected = TRUE]

\* async (c, next) after await limiter.limit(ctx): c.header for every header (the
\* first may throw), then the denied response is returned or next() is called
\* and awaited; there is no catch, an error rejects the middleware's promise
HonoSettle(req, type, result) ==
  IF type = "reject" THEN HonoReject([req EXCEPT !.decision = "error"])
  ELSE LET built == Build(result, ResultPolicy(result), HonoHeaders(req.headers))
           r0 == [req EXCEPT !.decision = IF result.allowed THEN "allowed" ELSE "denied"]
           r1 == [r0 EXCEPT !.out = built]
       IN IF built # NoHeaders /\ req.does.header = "throws" THEN HonoReject(r0)
          ELSE IF ~result.allowed
               THEN IF req.denied = "function"
                    THEN LET r2 == [r1 EXCEPT !.handled = @ + 1]
                         IN IF req.does.handler = "throws" THEN HonoReject(r2)
                            ELSE IF req.does.handler = "returns"
                                 THEN [r2 EXCEPT !.phase = "done", !.response = FunctionDenied]
                                 ELSE [r2 EXCEPT !.phase = "awaiting"]
                    ELSE IF req.denied = "response"
                         THEN [r1 EXCEPT !.phase = "done", !.response = CustomDenied]
                         ELSE [r1 EXCEPT !.phase = "done", !.response = DefaultDenied]
               ELSE LET r2 == [r1 EXCEPT !.nexts = Append(@, "ok")]
                    IN IF req.does.next = "throws" THEN HonoReject(r2)
                       ELSE [r2 EXCEPT !.phase = "awaiting"]

\* What the middleware waits for has settled: the promise the denied handler or
\* next() returned (for Hono's await next() also a value that is no promise).
\* The middleware's promise settles the same way; a Response the deniedResponse
\* function's promise resolved to is the response.
Awaited(req) ==
  LET outcome == IF req.decision = "denied" THEN req.does.handler ELSE req.does.next
  IN [req EXCEPT !.phase = "done", !.rejected = (outcome = "rejects"),
                 !.response = IF req.kind = "hono" /\ req.decision = "denied"
                                   /\ outcome = "resolves"
                              THEN FunctionDenied ELSE @]

MwHeaderOptions ==
  {Unset,
   Given([standard |-> Unset, legacy |-> Unset, policy |-> Given(TRUE)]),
   Given([standard |-> Given(FALSE), legacy |-> Given(TRUE), policy |-> Unset])}
MwKinds == {"express", "hono"}
MwDenied(kind) == IF kind = "express" THEN {"none", "handler"}
                  ELSE {"none", "response", "function"}

\* The requests tried: every call succeeds, or one call fails in one of its ways
\* (a call the request cannot make is left out), both with next(err) returning
\* and, for Express, with next(err) throwing.
AllReturn == Does("returns", "returns", "returns", "returns", "returns", "returns")
MwCalls(kind, denied) ==
  LET one == {AllReturn, [AllReturn EXCEPT !.context = "throws"],
              [AllReturn EXCEPT !.header = "throws"]}
               \cup {[AllReturn EXCEPT !.next = n] : n \in Outcomes}
               \cup (IF denied \in {"handler", "function"}
                     THEN {[AllReturn EXCEPT !.handler = d] : d \in Outcomes} ELSE {})
               \cup (IF kind = "express" /\ denied = "none"
                     THEN {[AllReturn EXCEPT !.send = "throws"]} ELSE {})
  IN one \cup (IF kind = "express" THEN {[d EXCEPT !.nextErr = "throws"] : d \in one}
               ELSE {})

\* A request reaches the middleware; getContext runs (it may throw).
MwEnter(kind, denied, headers, does) ==
  LET req == MwRequestRec(kind, denied, headers, does)
  IN /\ log.phase = "done"
     /\ ~InFlight(1)
     /\ log' = IF does.context # "throws" THEN req
               ELSE IF kind = "express"
                    THEN ExpressCatch([req EXCEPT !.decision = "error"])
                    ELSE HonoReject([req EXCEPT !.decision = "error"])
     /\ ev' = [NoEvent EXCEPT !.type = "request"]
     /\ UNCHANGED <<opts, clock, heap, map, redis, calls, burst>>

\* const result = await limiter.limit(ctx): the call starts
MwLimit(at) == log.phase = "entered" /\ ev.type = "request" /\ Start(1, "u1", Num(10), at)

\* limiter.limit has settled (ev is its return or its rejection): the rest of
\* the middleware runs.
MwSettle ==
  /\ log.phase = "entered"
  /\ ev.type \in {"return", "reject"}
  /\ log' = IF log.kind = "express" THEN ExpressSettle(log, ev.type, ev.result)
            ELSE HonoSettle(log, ev.type, ev.result)
  /\ ev' = [ev EXCEPT !.type = "settled"]
  /\ UNCHANGED <<opts, clock, heap, map, redis, calls, burst>>

\* The promise the middleware waits for settles.
MwAwaited ==
  /\ log.phase = "awaiting"
  /\ log' = Awaited(log)
  /\ ev' = [ev EXCEPT !.type = "awaited"]
  /\ UNCHANGED <<opts, clock, heap, map, redis, calls, burst>>

\* Time passes, but not within the middleware's synchronous stretches.
MwTick(t) ==
  /\ ~(log.phase = "entered" /\ ev.type \in {"request", "return", "reject"})
  /\ Tick(t)

MwInit ==
  /\ opts \in {[algorithm |-> SlidingCfg(1, 1000), store |-> st, namespace |-> Undefined] :
                 st \in {"memory", "redis"}}
  /\ clock = 0
  /\ heap = [r \in Refs |-> Free]
  /\ map = <<>>
  /\ redis = <<>>
  /\ calls = [c \in Slots |-> IdleCall]
  /\ ev = NoEvent
  /\ burst = [k \in {FullKey(opts, x) : x \in Ctxs} |-> 0]
  /\ log = [MwRequestRec("express", "none", Unset, AllReturn) EXCEPT !.phase = "done"]

MwNext ==
  \/ \E t \in EarlyTimes : MwTick(t)
  \/ \E kind \in MwKinds :
       \E denied \in MwDenied(kind), headers \in MwHeaderOptions :
         \E does \in MwCalls(kind, denied) : MwEnter(kind, denied, headers, does)
  \/ \E at \in EarlyTimes : MwLimit(at)
  \/ Resume(1)
  \/ Return(1)
  \/ RedisRunLoad(1)
  \/ RedisLoadOk(1)
  \/ RedisLoadFail(1)
  \/ RedisRunSave(1)
  \/ RedisSaveOk(1)
  \/ RedisSaveFail(1)
  \/ Reject(1)
  \/ MwSettle
  \/ MwAwaited
MwSpec == MwInit /\ [][MwNext]_vars

\* ----------------------------------------- a caller holding a loaded state
\* Beside the limiter (memoryStore, calls one after the other) a second caller
\* uses the store and the algorithm directly: it loads the key's state (slot 2
\* holds the object), may call algorithm.compute on it, and drops it without
\* ever saving.
HoldKey == FullKey(opts, "u1")

\* const s = await store.load(key)
Hold ==
  LET ld == MemLoad(map, HoldKey, clock)
      cs == [calls EXCEPT ![2] = [IdleCall EXCEPT !.pc = "held", !.key = HoldKey,
                                                  !.now = clock, !.ref = ld.ref,
                                                  !.loaded = Deref(heap, ld.ref),
                                                  !.ops = <<StoreOp("load", HoldKey, 0)>>]]
  IN /\ calls[2].pc = "idle" /\ ~InFlight(1)
     /\ ld.ref # NoRef
     /\ map' = ld.map
     /\ calls' = cs
     /\ heap' = Collect(heap, ld.map, cs)
     /\ ev' = [NoEvent EXCEPT !.type = "held", !.key = HoldKey, !.now = clock,
                              !.loaded = Deref(heap, ld.ref),
                              !.ops = <<StoreOp("load", HoldKey, 0)>>]
     /\ UNCHANGED <<opts, log, clock, redis, burst>>

\* algorithm.compute(s, cost, Date.now()) on the held object; nothing is saved
HoldApply(cost, st, out) ==
  LET call == calls[2]
  IN /\ call.pc = "held" /\ ~InFlight(1)
     /\ CountRoom(cost)
     /\ heap' = [heap EXCEPT ![call.ref] = out.state]
     /\ calls' = [calls EXCEPT ![2].pc = "computed", ![2].result = out.result]
     /\ ev' = [NoEvent EXCEPT !.type = "computed", !.key = call.key, !.now = clock,
                              !.cost = cost, !.loaded = st, !.result = out.result,
                              !.ttlMs = out.ttlMs, !.ops = call.ops]
     /\ UNCHANGED <<opts, log, clock, map, redis, burst>>
HoldCompute(cost) ==
  /\ calls[2].pc = "held"
  /\ HoldApply(cost, heap[calls[2].ref],
               Compute(opts.algorithm, heap[calls[2].ref], cost, clock))

\* The caller lets go of the object.
HoldDrop ==
  LET cs == [calls EXCEPT ![2] = IdleCall]
  IN /\ calls[2].pc \in {"held", "computed"} /\ ~InFlight(1)
     /\ calls' = cs
     /\ heap' = Collect(heap, map, cs)
     /\ ev' = [NoEvent EXCEPT !.type = "dropped"]
     /\ UNCHANGED <<opts, log, clock, map, redis, burst>>

HoldInit == Init /\ opts.store = "memory" /\ opts.namespace = Undefined
HoldNext ==
  \/ \E t \in Times : Tick(t)
  \/ \E raw \in {Num(10), Num(20)}, at \in Times : Start(1, "u1", raw, at)
  \/ Resume(1)
  \/ Return(1)
  \/ Hold
  \/ \E cost \in 0..1 : HoldCompute(cost)
  \/ HoldDrop
HoldSpec == HoldInit /\ [][HoldNext]_vars

\* ------------------------------------------------- a client that retries
\* One client of a sliding-window limiter (memoryStore), alone on its key: it
\* sends cost-1 requests at its starting instant until one is denied, then
\* waits exactly the reported retryAfter and retries, until it is allowed.  log
\* is the client: its phase, when it retries, and the denials in a row (counted
\* up to DenialCap).  The clock runs to Horizon; with a limit of 2 or more the
\* second retry, at most two windows after the start, is allowed.  The limits are
\* those whose first denial (count limit + 1) leaves room for a retry under
\* MaxCount.  A client that is still denied goes on beyond Horizon: compute uses
\* now, windowStart and prevStart through their differences and their alignment
\* to windowMs and (for result.reset) to the second only, and the store uses now
\* and expiresAt through their order only, so the run is continued with every
\* time moved back by a whole number of windows and of seconds.
Horizon == 500 * MaxTick
DenialCap == MaxLimit + 1
RetryStarts == {125 * i : i \in 0..7}
RetryConfigs == {SlidingCfg(l, w) : l \in 1..(MaxCount - 2), w \in {500, 1000}}

Client(phase, retryAt, denials) ==
  [phase |-> phase, retryAt |-> retryAt, denials |-> denials]

\* await limiter.limit(ctx): the client's request, first or retried, the two
\* clock readings of the call returning the same time
ClientRequest ==
  /\ log.phase \in {"sending", "due"}
  /\ ev.type # "return"
  /\ Start(1, "u1", Num(10), clock)

\* The client looks at the decision.
ClientSee ==
  /\ log.phase \in {"sending", "due"}
  /\ ev.type = "return"
  /\ log' = IF ev.result.allowed
            THEN Client(IF log.phase = "due" THEN "served" ELSE "sending", 0, 0)
            ELSE Client("denied", ev.now + ev.result.retryAfter,
                        Min(DenialCap, log.denials + 1))
  /\ ev' = [ev EXCEPT !.type = "seen"]
  /\ UNCHANGED <<opts, clock, heap, map, redis, calls, burst>>

\* setTimeout(retry, result.retryAfter): the client waits exactly that long
ClientWait ==
  /\ log.phase = "denied"
  /\ log.retryAt <= Horizon
  /\ clock' = log.retryAt
  /\ log' = [log EXCEPT !.phase = "due"]
  /\ ev' = [NoEvent EXCEPT !.type = "tick"]
  /\ burst' = [k \in DOMAIN burst |-> 0]
  /\ UNCHANGED <<opts, heap, map, redis, calls>>

\* The state s with its times d earlier.
EarlierState(s, d) ==
  IF "windowStart" \in DOMAIN s
  THEN [s EXCEPT !.windowStart = @ - d, !.prevStart = @ - d]
  ELSE s

RECURSIVE Gcd(_, _)
Gcd(a, b) == IF b = 0 THEN a ELSE Gcd(b, a % b)
\* The least time that is a whole number of windows and of seconds.
RebaseShift(cfg) == (cfg.windowMs * 1000) \div Gcd(cfg.windowMs, 1000)

\* The same run seen from a time origin moved by RebaseShift: every time held
\* anywhere is that much less, and the windows and the whole seconds (those of
\* result.reset) fall where they fell.
Rebase ==
  LET d == RebaseShift(opts.algorithm)
  IN /\ log.phase = "denied"
     /\ clock >= d
     /\ clock' = clock - d
     /\ heap' = [r \in Refs |-> EarlierState(heap[r], d)]
     /\ map' = [k \in DOMAIN map |-> [map[k] EXCEPT !.expiresAt = @ - d]]
     /\ log' = [log EXCEPT !.retryAt = @ - d]
     /\ ev' = [NoEvent EXCEPT !.type = "rebase"]
     /\ UNCHANGED <<opts, redis, calls, burst>>

RetryInit ==
  /\ opts \in {[algorithm |-> a, store |-> "memory", namespace |-> Undefined] :
                 a \in RetryConfigs}
  /\ clock \in RetryStarts
  /\ heap = [r \in Refs |-> Free]
  /\ map = <<>>
  /\ redis = <<>>
  /\ calls = [c \in Slots |-> IdleCall]
  /\ ev = NoEvent
  /\ burst = [k \in {FullKey(opts, x) : x \in Ctxs} |-> 0]
  /\ log = Client("sending", 0, 0)

\* The steps of the loop other than limit's continuation after the load
RetryLoop ==
  \/ ClientRequest
  \/ Return(1)
  \/ ClientSee
  \/ ClientWait
  \/ Rebase
RetryNext ==
  \/ RetryLoop
  \/ Resume(1)
\* The client's loop keeps running: a step that can be taken is taken.  Resume(1)
\* can be taken exactly while the call is at "loaded" (it is the only call, so
\* it is first in the queue) and leaves that position, so its weak fairness is
\* that the call is not at "loaded" for ever.
RetrySpec ==
  /\ RetryInit
  /\ [][RetryNext]_vars
  /\ WF_vars(RetryLoop)
  /\ []<>(calls[1].pc # "loaded")

\* --------------------------------------------- what a key has been allowed
\* Calls one after the other on one key (the next starts when the one before
\* has returned), of cost 0, 1 or 2, the store never failing, the clock moving
\* forward at any point.  After each return the decision is added to
\* log: the now of the latest call that found no state (first), the now of the
\* latest call (last), the cost allowed since first (allowed), and the aligned
\* window of the latest call with the cost allowed in it (window, windowAllowed).
TallyConfigs ==
  {SlidingCfg(l, w) : l \in 1..MaxLimit, w \in {500, 1000}}
    \cup {BucketCfg(c, r) : c \in 1..MaxLimit, r \in {1, 2}}
\* The instants of the calls and of the store's operations: two of them off the
\* half seconds, where the token bucket's refill is rounded, just before and
\* just after the end of the first window of 500 ms.
TallyTimes == Times \cup {499, 501}
NoTime == 0 - 1
NoTally == [first |-> NoTime, last |-> NoTime, allowed |-> 0,
            window |-> NoTime, windowAllowed |-> 0]

\* The aligned window [k * windowMs, (k + 1) * windowMs) that holds now.
AlignedWindow(cfg, now) == IF cfg.name = "sliding" THEN CurWindowStart(cfg, now) ELSE 0

\* The returned decision is added to the tally.
Tally ==
  LET a == IF ev.result.allowed THEN ev.cost ELSE 0
      w == AlignedWindow(opts.algorithm, ev.now)
  IN /\ ev.type = "return"
     /\ log' = [first |-> IF ev.loadedAbsent THEN ev.now ELSE log.first,
                last |-> ev.now,
                allowed |-> a + (IF ev.loadedAbsent THEN 0 ELSE log.allowed),
                window |-> w,
                windowAllowed |-> a + (IF log.window = w THEN log.windowAllowed ELSE 0)]
     /\ ev' = [ev EXCEPT !.type = "tallied"]
     /\ UNCHANGED <<opts, clock, heap, map, redis, calls, burst>>

TallyInit ==
  /\ opts \in {[algorithm |-> a, store |-> st, namespace |-> Undefined] :
                 a \in TallyConfigs, st \in {"memory", "redis"}}
  /\ clock = 0
  /\ heap = [r \in Refs |-> Free]
  /\ map = <<>>
  /\ redis = <<>>
  /\ calls = [c \in Slots |-> IdleCall]
  /\ ev = NoEvent
  /\ burst = [k \in {FullKey(opts, x) : x \in Ctxs} |-> 0]
  /\ log = NoTally

\* Time passes, between two calls and while a call is in flight: between its
\* Date.now() and the store's load and save.
TallyTick(t) == ev.type # "return" /\ Tick(t)

\* await limiter.limit(ctx), once the decision before it has been tallied
TallyStart(raw, at) == ev.type # "return" /\ Start(1, "u1", raw, at)

TallyNext ==
  \/ \E t \in TallyTimes : TallyTick(t)
  \/ \E raw \in {Num(-10), Num(10), Num(20)}, at \in TallyTimes : TallyStart(raw, at)
  \/ Resume(1)
  \/ Return(1)
  \/ RedisRunLoad(1)
  \/ RedisLoadOk(1)
  \/ RedisRunSave(1)
  \/ RedisSaveOk(1)
  \/ Tally
TallySpec == TallyInit /\ [][TallyNext]_vars

\* ------------------------------------------------------------- properties
\* C1: limit's load, compute, save is not atomic.  A call that loaded absent
\* state leaves, when its save has run, the state of a first request of its own
\* cost alone, whatever calls for the same key saved between its load and its
\* save.
C1_SaveKeepsOnlyOwnCost ==
  (ev.type = "saved" /\ ev.loadedAbsent) =>
    PersistedState(ev.key) =
      IF opts.algorithm.name = "sliding"
      THEN [windowStart |-> (ev.now \div opts.algorithm.windowMs) * opts.algorithm.windowMs,
            count |-> ev.cost,
            prevStart |-> (ev.now \div opts.algorithm.windowMs) * opts.algorithm.windowMs
                            - opts.algorithm.windowMs,
            prevCount |-> 0]
      ELSE [tokens |-> IF ev.cost <= opts.algorithm.limit
                       THEN DFromInt(opts.algorithm.limit - ev.cost)
                       ELSE DFromInt(opts.algorithm.limit),
            last |-> ev.now]
\* Two calls that were in flight together have both loaded absent state and both
\* returned allowed, admitting more cost than the limit; the sliding-window count
\* that is stored is the cost of the one that saved last only.
C1_LostUpdateAdmitsOverLimit ==
  /\ ev.type = "return" /\ ev.loadedAbsent /\ ev.result.allowed
  /\ opts.algorithm.name = "sliding"
  /\ ev.cost >= 1 /\ ev.admitted > ev.cost
  /\ ev.admitted > opts.algorithm.limit
  /\ PersistedState(ev.key).count = ev.cost
  /\ \A c \in Slots : ~InFlight(c)

\* C11: a request of cost 0 is never denied by either algorithm, whatever
\* requests (denied ones too) came before.
C11_ZeroCostNeverDenied ==
  (ev.type = "compute" /\ ev.cost = 0) => ev.result.allowed
\* A sliding window whose count earlier requests drove over the limit denies a
\* request of cost 0.
C11_ZeroCostDeniedOverLimit ==
  /\ ev.type = "compute" /\ opts.algorithm.name = "sliding"
  /\ ev.cost = 0 /\ ~ev.result.allowed
  /\ heap[1].count > opts.algorithm.limit

\* C12: the sliding window adds every request's cost to the current window's
\* count, allowed or denied: after requests evaluated one after the other within
\* one window the stored count is the sum of their costs.
C12_CountIsSumOfCosts ==
  (ev.type = "compute" /\ opts.algorithm.name = "sliding") =>
    heap[1].count = ev.windowSum
\* A denied request after an earlier denied one in the same window, both counted.
C12_DeniedCostsCounted ==
  /\ ev.type = "compute" /\ opts.algorithm.name = "sliding"
  /\ ~ev.loadedAbsent /\ ev.loaded.count > opts.algorithm.limit
  /\ ev.cost >= 1 /\ ~ev.result.allowed
  /\ ev.windowSum >= opts.algorithm.limit + 2
  /\ heap[1].count = ev.loaded.count + ev.cost

\* C13: the token bucket denies exactly when the tokens after refill are fewer
\* than the cost; it then deducts nothing (the stored tokens are the refilled
\* value) and retryAfter = ceil((cost - tokens) / refillPerMs).
C13_DeniedCostNotDeducted ==
  (ev.type = "compute" /\ opts.algorithm.name = "tokenBucket") =>
    LET cap == DFromInt(opts.algorithm.limit)
        perMs == DDiv(DFromInt(opts.algorithm.refillRatePerSec), DFromInt(1000))
        grown == DAdd(ev.loaded.tokens, DMul(DFromInt(ev.now - ev.loaded.last), perMs))
        refilled == IF ev.loadedAbsent THEN cap
                    ELSE IF ev.now > ev.loaded.last
                         THEN (IF DCmp(grown, cap) <= 0 THEN grown ELSE cap)
                         ELSE ev.loaded.tokens
        cost == DFromInt(ev.cost)
    IN /\ ev.result.allowed <=> (DCmp(refilled, cost) >= 0)
       /\ ~ev.result.allowed =>
            /\ heap[1].tokens = refilled
            /\ ev.result.hasRetryAfter
            /\ ev.result.retryAfter = DCeil(DDiv(DSub(cost, refilled), perMs))
\* Capacity 1, 1 token a second, the bucket emptied at 0 and a request of cost 1
\* at 999: denied with retryAfter 2, the quotient (1 - 999 * 0.001) / 0.001 lying
\* just above 1 in double precision.
C13_DeniedRetryAfterRounded ==
  /\ ev.type = "compute" /\ ~ev.loadedAbsent
  /\ opts.algorithm = BucketCfg(1, 1)
  /\ ev.loaded = [tokens |-> DZero, last |-> 0]
  /\ ev.now = 999 /\ ev.cost = 1 /\ ~ev.result.allowed
  /\ ev.result.hasRetryAfter /\ ev.result.retryAfter = 2
  /\ DCmp(heap[1].tokens, DFromInt(1)) < 0

\* C14: the sliding window's retryAfter bounds the earliest admissible retry:
\* after a denial with retryAfter r at now, with no request in between, a
\* request of cost 1 evaluated at now + r is allowed.
C14_RetryAtWindowCloseAllowed ==
  (/\ ev.type = "compute" /\ opts.algorithm.name = "sliding"
   /\ ev.retried # NoRetry /\ ev.cost = 1) =>
    ev.result.allowed
\* The retry of cost 1 at the close of the window is denied: the count of the
\* closed window, the denied cost in it, weighs in full.
C14_RetryAtWindowCloseDenied ==
  /\ ev.type = "compute" /\ opts.algorithm.name = "sliding"
  /\ ev.retried # NoRetry /\ ev.cost = 1
  /\ ev.now = ev.loaded.windowStart + opts.algorithm.windowMs
  /\ ~ev.result.allowed
  /\ heap[1].prevCount = ev.loaded.count /\ heap[1].count = 1

\* C15: after the token bucket denied a request of cost c with retryAfter r at
\* now, with no request in between, the same request of cost c evaluated at
\* now + r is allowed, for every c, costs above the capacity included.
C15_RetryAfterRefillAllowed ==
  (/\ ev.type = "compute" /\ opts.algorithm.name = "tokenBucket"
   /\ ev.retried = ev.cost) =>
    ev.result.allowed
\* A cost above the capacity retried after its retryAfter and denied again, the
\* bucket full.
C15_RetryAboveCapacityDenied ==
  /\ ev.type = "compute" /\ opts.algorithm.name = "tokenBucket"
  /\ ev.retried = ev.cost /\ ev.cost > opts.algorithm.limit
  /\ ~ev.result.allowed
  /\ heap[1].tokens = DFromInt(opts.algorithm.limit)

\* C16: for both algorithms a decision carries a retryAfter if and only if
\* allowed is false, and that retryAfter is a number of milliseconds >= 0.
C16_RetryAfterIffDenied ==
  ev.type = "compute" =>
    /\ ev.result.hasRetryAfter <=> ~ev.result.allowed
    /\ ev.result.retryAfter >= 0
\* A token bucket denying with a retryAfter above 0.
C16_DeniedWithRetryAfter ==
  /\ ev.type = "compute" /\ opts.algorithm.name = "tokenBucket"
  /\ ~ev.loadedAbsent /\ ~ev.result.allowed
  /\ ev.result.hasRetryAfter /\ ev.result.retryAfter > 0

\* C17: for both algorithms every decision has 0 <= remaining <= limit
\* (capacity), and a denied decision of the sliding window has remaining = 0.
C17_RemainingWithinLimit ==
  ev.type = "compute" =>
    /\ ev.result.remaining \in 0..opts.algorithm.limit
    /\ (opts.algorithm.name = "sliding" /\ ~ev.result.allowed) => ev.result.remaining = 0
\* A sliding window denying with the weighted previous count in the balance.
C17_DeniedRemainingZero ==
  /\ ev.type = "compute" /\ opts.algorithm.name = "sliding"
  /\ ~ev.result.allowed /\ ev.result.remaining = 0
  /\ heap[1].prevCount > 0 /\ heap[1].prevStart = heap[1].windowStart - opts.algorithm.windowMs
  /\ heap[1].count <= opts.algorithm.limit

\* C18: the sliding window decides a request evaluated two or more windows
\* after the stored window as on a fresh key: neither the stored count nor the
\* stored previous count contributes (cost 1: allowed, remaining = limit - 1).
C18_FarWindowDecidedAsFresh ==
  (/\ ev.type = "compute" /\ opts.algorithm.name = "sliding" /\ ~ev.loadedAbsent
   /\ (ev.now \div opts.algorithm.windowMs) * opts.algorithm.windowMs
        >= ev.loaded.windowStart + 2 * opts.algorithm.windowMs) =>
    LET cur == (ev.now \div opts.algorithm.windowMs) * opts.algorithm.windowMs
    IN /\ heap[1] = [windowStart |-> cur, count |-> ev.cost,
                     prevStart |-> cur - opts.algorithm.windowMs, prevCount |-> 0]
       /\ ev.result.allowed <=> (ev.cost <= opts.algorithm.limit)
       /\ ev.result.remaining =
            (IF ev.cost <= opts.algorithm.limit THEN opts.algorithm.limit - ev.cost ELSE 0)
\* A window filled to its limit, then a request of cost 1 two windows later:
\* allowed with remaining = limit - 1.
C18_FullWindowForgottenTwoLater ==
  /\ ev.type = "compute" /\ opts.algorithm.name = "sliding" /\ ~ev.loadedAbsent
  /\ ev.loaded.count >= opts.algorithm.limit
  /\ ev.now >= ev.loaded.windowStart + 2 * opts.algorithm.windowMs
  /\ ev.cost = 1 /\ ev.result.allowed
  /\ ev.result.remaining = opts.algorithm.limit - 1

\* C19: expiry of a sliding-window state changes no decision (memoryStore, the
\* clock not going back): the entry can be loaded at every time before
\* windowStart + 2 * windowMs, at every time at or after its expiry the
\* decision computed from absent state is the one computed from the state kept,
\* and a call whose load finds the entry expired decides as it would have
\* decided on the state the entry held.
C19_SlidingExpiryKeepsDecision ==
  (opts.algorithm.name = "sliding" /\ opts.store = "memory") =>
    /\ \A k \in DOMAIN map :
         LET st == heap[map[k].state]
         IN /\ \A t \in AlgTimes :
                 (t >= clock /\ t < st.windowStart + 2 * opts.algorithm.windowMs) =>
                   MemLoad(map, k, t).ref = map[k].state
            /\ \A t \in {map[k].expiresAt + d : d \in AlgTimes} :
                 t >= clock =>
                   \A c \in 0..MaxRawCost :
                     Compute(opts.algorithm, st, c, t).result
                       = Compute(opts.algorithm, Absent, c, t).result
    /\ (ev.type = "start" /\ ~IsAbsent(ev.dropped)) =>
         Compute(opts.algorithm, Absent, ev.cost, ev.now).result
           = Compute(opts.algorithm, ev.dropped, ev.cost, ev.now).result
\* limit 1, windows of 1000 ms: a call of cost 1 read its now at 1500 and its
\* load read 2000, the expiry of the entry of window 0 with the count 1; the
\* load deleted the entry, and the call will be allowed where the state the
\* entry held denies it.
C19_ExpiredEntryWouldHaveDenied ==
  /\ opts.algorithm = SlidingCfg(1, 1000) /\ opts.store = "memory"
  /\ ev.type = "start" /\ ev.now = 1500 /\ clock = 2000 /\ ev.cost = 1
  /\ ev.loadedAbsent /\ map = <<>>
  /\ ~IsAbsent(ev.dropped)
  /\ ev.dropped.windowStart = 0 /\ ev.dropped.count = 1
  /\ Compute(opts.algorithm, Absent, 1, 1500).result.allowed
  /\ ~Compute(opts.algorithm, ev.dropped, 1, 1500).result.allowed

\* C20: expiry of a token-bucket state changes no decision (memoryStore): at
\* every time at or after the entry's expiry the state kept would have refilled
\* to the capacity, so the decision computed from absent state is the one
\* computed from the state kept, and a call whose load finds the entry expired
\* decides as it would have decided on the state the entry held.
C20_BucketExpiryKeepsDecision ==
  (opts.algorithm.name = "tokenBucket" /\ opts.store = "memory") =>
    /\ \A k \in DOMAIN map :
         LET st == heap[map[k].state]
         IN \A t \in {map[k].expiresAt + d : d \in AlgTimes} :
              t >= clock =>
                \A c \in 0..MaxRawCost :
                  Compute(opts.algorithm, st, c, t).result
                    = Compute(opts.algorithm, Absent, c, t).result
    /\ (ev.type = "start" /\ ~IsAbsent(ev.dropped)) =>
         Compute(opts.algorithm, Absent, ev.cost, ev.now).result
           = Compute(opts.algorithm, ev.dropped, ev.cost, ev.now).result
\* capacity 1, one token a second: a call of cost 1 read its now at 500 and its
\* load read 2000, the expiry of the entry of the bucket emptied at 0; the load
\* deleted the entry, and the call will be allowed where the state the entry
\* held, refilled to half a token, denies it.
C20_ExpiredBucketWouldHaveDenied ==
  /\ opts.algorithm.name = "tokenBucket" /\ opts.store = "memory"
  /\ opts.algorithm.limit = 1 /\ opts.algorithm.refillRatePerSec = 1
  /\ ev.type = "start" /\ ev.now = 500 /\ clock = 2000 /\ ev.cost = 1
  /\ ev.loadedAbsent /\ map = <<>>
  /\ ~IsAbsent(ev.dropped)
  /\ ev.dropped.last = 0 /\ ev.dropped.tokens = DZero
  /\ Compute(opts.algorithm, Absent, 1, 500).result.allowed
  /\ ~Compute(opts.algorithm, ev.dropped, 1, 500).result.allowed

\* C21: compute is pure for both algorithms: it does not modify the prior
\* state passed to it (the object handed in holds after the call what it held
\* before).
C21_ComputeKeepsPriorState ==
  (ev.type = "compute" /\ ~ev.loadedAbsent) => heap[1] = ev.loaded
\* The object handed to the sliding window holds the new count after the call.
C21_PriorStateObjectChanged ==
  /\ ev.type = "compute" /\ opts.algorithm.name = "sliding" /\ ~ev.loadedAbsent
  /\ ev.cost >= 1
  /\ ev.loaded.windowStart = heap[1].windowStart
  /\ heap[1].count = ev.loaded.count + ev.cost
  /\ heap[1] # ev.loaded

\* C22: decisions are isolated per fully-qualified key.  No step of a limit
\* call for one key changes what a load of a different key returns, now or at
\* any later time, so a later call for that key decides as if the calls for the
\* other key had not happened.
C22_OtherKeysUntouched ==
  [][\A x \in KeyCtxs :
       LET B == "default:" \o x
           stepKey == IF calls[1].pc # "idle" THEN calls[1].key ELSE calls'[1].key
       IN stepKey # B =>
            \A t \in Times : t >= clock' => LoadAt(B, t)' = LoadAt(B, t)]_vars
\* A call for u1 has just been denied by the sliding window while the entry of
\* u2 holds a count of its own within the limit.
C22_OneKeyDeniedOtherHasRoom ==
  /\ ev.type = "return" /\ ev.key = "default:u1" /\ ~ev.result.allowed
  /\ opts.algorithm.name = "sliding"
  /\ ~IsAbsent(LoadAt("default:u1", clock))
  /\ LoadAt("default:u1", clock).count > opts.algorithm.limit
  /\ ~IsAbsent(LoadAt("default:u2", clock))
  /\ LoadAt("default:u2", clock).count \in 1..opts.algorithm.limit
  /\ LoadAt("default:u2", clock).windowStart = LoadAt("default:u1", clock).windowStart

\* C2: sliding window with limit L; of the cost-1 limit calls made one after the
\* other for one fresh key and all evaluated at the same instant, the calls 1..L
\* are allowed and every call after the L-th is denied.
C2_BurstAllowedUpToLimit ==
  (/\ ev.type = "return" /\ opts.algorithm.name = "sliding"
   /\ burst[ev.key] # NoBurst) =>
    (ev.result.allowed <=> burst[ev.key] <= opts.algorithm.limit)
\* The call after the L-th of such a burst, denied, with L at least 2.
C2_CallAfterLimitDenied ==
  /\ ev.type = "return" /\ opts.algorithm.name = "sliding"
  /\ opts.algorithm.limit >= 2
  /\ burst[ev.key] = opts.algorithm.limit + 1
  /\ ~ev.result.allowed /\ ev.result.remaining = 0

\* C3: after any sequence of token-bucket decisions for a key starting from
\* absent state (costs >= 0, timestamps that may go back, calls that may
\* overlap), the persisted tokens are at least 0 and at most the capacity.
C3_TokensWithinCapacity ==
  opts.algorithm.name = "tokenBucket" =>
    /\ \A k \in DOMAIN map :
         /\ DCmp(heap[map[k].state].tokens, DZero) >= 0
         /\ DCmp(heap[map[k].state].tokens, DFromInt(opts.algorithm.limit)) <= 0
    /\ \A k \in DOMAIN redis :
         /\ DCmp(Parse(redis[k].value).tokens, DZero) >= 0
         /\ DCmp(Parse(redis[k].value).tokens, DFromInt(opts.algorithm.limit)) <= 0
\* A call evaluated with a now earlier than the stored last refill time (a call
\* that started later has saved in between) takes the last token.
C3_EarlierNowTakesLastToken ==
  /\ ev.type = "return" /\ opts.algorithm.name = "tokenBucket"
  /\ ~IsAbsent(ev.loaded) /\ ev.now < ev.loaded.last
  /\ ev.cost >= 1 /\ ev.result.allowed
  /\ PersistedState(ev.key).tokens = DZero

\* C5: a limit call that returns a decision has made exactly one store.load and
\* then exactly one store.save, both on namespace + ':' + keyFn(ctx) with the
\* namespace defaulting to 'default', and the save carries the state and the
\* lifetime the algorithm produced, whether the decision is allow or deny.
C5_OneLoadThenOneSave ==
  ev.type \in {"saved", "return"} =>
    LET K == (IF opts.namespace = Undefined THEN "default" ELSE opts.namespace)
               \o ":" \o ev.ctx
        out == Compute(opts.algorithm, ev.loaded, ev.cost, ev.now)
    IN /\ ev.ops = <<[op |-> "load", key |-> K, ttlMs |-> 0],
                     [op |-> "save", key |-> K, ttlMs |-> out.ttlMs]>>
       /\ ev.result = out.result
       /\ ev.type = "saved" =>
            /\ PersistedState(K) = out.state
            /\ opts.store = "memory" => map[K].expiresAt = clock + out.ttlMs
            /\ opts.store = "redis" =>
                 redis["rl:" \o K].expiresAt = clock + 1000 * (-((-out.ttlMs) \div 1000))
\* A denied call of a limiter with a namespace of its own, its state saved
\* under that namespace.
C5_DeniedCallSaved ==
  /\ ev.type = "return" /\ ~ev.result.allowed
  /\ opts.namespace = "custom" /\ ev.key = "custom:u1"
  /\ Len(ev.ops) = 2 /\ ev.ops[2].op = "save" /\ ev.ops[2].key = "custom:u1"
  /\ "custom:u1" \in DOMAIN map
  /\ heap[map["custom:u1"].state].count > opts.algorithm.limit

\* C6: store failures propagate without retry.  If store.load rejects, limit
\* rejects, store.save is never called and load is not called again; if
\* store.save rejects, limit rejects and returns no decision.
C6_FailurePropagatesNoRetry ==
  ev.type = "reject" =>
    /\ ev.failedOp \in {"load", "save"}
    /\ ev.failedOp = "load" => ev.ops = <<[op |-> "load", key |-> ev.key, ttlMs |-> 0]>>
    /\ ev.failedOp = "save" =>
         /\ Len(ev.ops) = 2
         /\ ev.ops[1] = [op |-> "load", key |-> ev.key, ttlMs |-> 0]
         /\ ev.ops[2].op = "save" /\ ev.ops[2].key = ev.key
    /\ ev.result = NoResult
    /\ \A c \in Slots : ~InFlight(c)
\* A limit call rejected by a failing load, the store left empty.
C6_LoadFailureRejects ==
  /\ ev.type = "reject" /\ ev.failedOp = "load"
  /\ Len(ev.ops) = 1 /\ ev.ops[1].op = "load"
  /\ redis = <<>>

\* C4: for both algorithms and every configuration, a request on absent state
\* whose cost is at most the limit (capacity) is allowed, and the remaining it
\* reports is the limit (capacity) minus exactly that cost.
C4_FreshWithinLimitAllowed ==
  (ev.type = "compute" /\ ev.loadedAbsent /\ ev.cost <= opts.algorithm.limit) =>
    /\ ev.result.allowed
    /\ ev.result.remaining = opts.algorithm.limit - ev.cost
\* A token bucket of capacity 2 or more emptied by its first request.
C4_FreshFullCostAdmitted ==
  /\ ev.type = "compute" /\ ev.loadedAbsent
  /\ opts.algorithm.name = "tokenBucket"
  /\ opts.algorithm.limit >= 2 /\ ev.cost = opts.algorithm.limit
  /\ ev.result.allowed /\ ev.result.remaining = 0
  /\ heap[1].tokens = DZero

\* C7: when the sliding window evaluates a request with a now earlier than the
\* previous request's on the same state, the cost counted in the state is not
\* discarded and the request is not granted more remaining than the previous
\* decision reported.
C7_BackwardClockKeepsConsumption ==
  (ev.type = "compute" /\ opts.algorithm.name = "sliding" /\ ev.back /\ ~ev.loadedAbsent) =>
    /\ heap[1].count + heap[1].prevCount >= ev.loaded.count + ev.cost
    /\ ev.result.remaining <= ev.prevRemaining
\* A request evaluated in an earlier window than the stored one: the stored
\* count is gone and a limiter that had nothing remaining allows again.
C7_EarlierWindowForgetsCount ==
  /\ ev.type = "compute" /\ opts.algorithm.name = "sliding" /\ ev.back /\ ~ev.loadedAbsent
  /\ ev.now < ev.loaded.windowStart
  /\ ev.loaded.count >= opts.algorithm.limit /\ ev.prevRemaining = 0
  /\ ev.cost >= 1 /\ ev.result.allowed
  /\ heap[1].count = ev.cost /\ heap[1].prevCount = 0

\* C8: when the token bucket evaluates a request with now <= the state's last
\* refill time, no tokens are added and the last refill time stays as it is; the
\* state changes only by the deduction of the cost of an admitted request.
C8_NoRefillWhenClockNotForward ==
  (/\ ev.type = "compute" /\ opts.algorithm.name = "tokenBucket"
   /\ ~ev.loadedAbsent /\ ev.now <= ev.loaded.last) =>
    /\ heap[1].last = ev.loaded.last
    /\ ev.result.allowed <=> (DCmp(ev.loaded.tokens, DFromInt(ev.cost)) >= 0)
    /\ heap[1].tokens = IF ev.result.allowed THEN DSub(ev.loaded.tokens, DFromInt(ev.cost))
                        ELSE ev.loaded.tokens
\* A bucket below its capacity asked at an earlier now than its last refill,
\* admitting the request.
C8_EarlierNowAdmitted ==
  /\ ev.type = "compute" /\ opts.algorithm.name = "tokenBucket" /\ ~ev.loadedAbsent
  /\ ev.now < ev.loaded.last
  /\ DCmp(ev.loaded.tokens, DFromInt(opts.algorithm.limit)) < 0
  /\ ev.cost >= 1 /\ ev.result.allowed
  /\ heap[1].last = ev.loaded.last
  /\ heap[1].tokens = DSub(ev.loaded.tokens, DFromInt(ev.cost))

\* C9: for every finite number c the cost function returns (0 and the values
\* between 0 and 1 included), the cost limit passes to the algorithm is
\* max(0, floor(c)).
C9_FiniteCostIsMaxZeroFloor ==
  (ev.type = "cost" /\ IsFinite(ev.raw)) =>
    ev.norm = Num(10 * Max(0, ev.raw.v \div 10))
\* The cost function returned 0 and the algorithm is handed 1.
C9_ZeroCostBecomesOne ==
  ev.type = "cost" /\ ev.raw = Num(0) /\ ev.norm = Num(10)

\* C10: if the cost function returns NaN, +Infinity or -Infinity, the cost limit
\* passes to the algorithm is 1.
C10_NonFiniteCostIsOne ==
  (ev.type = "cost" /\ ~IsFinite(ev.raw)) => ev.norm = Num(10)
\* The cost function returned +Infinity and the algorithm is handed +Infinity.
C10_InfinityCostStaysInfinite ==
  ev.type = "cost" /\ ev.raw = PosInf /\ ev.norm = PosInf

\* C23: two limiters with different namespaces sharing one store never load or
\* save the same store entry, whatever non-empty strings their key functions
\* return: every store key has been used by the limiters of one namespace only.
C23_NamespacesShareNoEntry ==
  \A k \in DOMAIN log : Cardinality(log[k]) <= 1

\* The limiter "a:b" is denied on its first call for "c": the entry it loaded
\* was saved by the limiter "a" for "b:c".
C23_DeniedByOtherNamespace ==
  /\ ev.type = "return" /\ ev.ctx = "c" /\ ev.key = "a:b:c"
  /\ ~ev.loadedAbsent /\ ~ev.result.allowed
  /\ log["a:b:c"] = {"a", "a:b"}
  /\ opts.algorithm.name = "sliding" /\ opts.algorithm.limit = 1
  /\ ev.loaded.count = 1

\* C24: with a non-decreasing clock, memoryStore's load(k) returns the state
\* given to the most recent save(k, s, ttl) if and only if fewer than ttl
\* milliseconds have passed since that save and no reset(k) followed it; in every
\* other case, exactly ttl milliseconds after the save included, it returns
\* absent.
C24_LoadReturnsLastSaveWithinTtl ==
  ev.type = "load" =>
    LET last == log[ev.key]
    IN IF last.op = "save" /\ clock - last.at < last.ttlMs
       THEN ~ev.loadedAbsent /\ ev.loaded = heap[last.ref]
       ELSE ev.loadedAbsent /\ IsAbsent(ev.loaded)

\* A load exactly ttl milliseconds after the save returned absent.
C24_AbsentExactlyAtTtl ==
  /\ ev.type = "load" /\ ev.loadedAbsent
  /\ log[ev.key].op = "save" /\ log[ev.key].ttlMs > 0
  /\ clock - log[ev.key].at = log[ev.key].ttlMs

\* C25: a memoryStore save with ttlMs <= 0 leaves the key absent to every later
\* load, even if the key held a live entry before that save: it is never taken
\* as "never expires".
C25_NonPositiveTtlIsExpired ==
  /\ \A k \in StoreKeys :
       (log[k].op = "save" /\ log[k].ttlMs <= 0) =>
         \A t \in Times : t >= clock => ~IsLive(map, k, t)
  /\ (ev.type = "load" /\ log[ev.key].op = "save" /\ log[ev.key].ttlMs <= 0)
       => ev.loadedAbsent

\* A load returned absent after a save with ttlMs <= 0 that replaced a live entry.
C25_LiveEntryReplacedByExpired ==
  /\ ev.type = "load" /\ ev.loadedAbsent
  /\ log[ev.key].op = "save" /\ log[ev.key].ttlMs <= 0 /\ log[ev.key].live
  /\ log[ev.key].at = clock

\* C26: memoryStore's reset(k) deletes only the entry for k: from then on load(k)
\* returns absent until the next save(k), what load returns for every other key
\* is as before, and reset of a key with no entry changes nothing.
C26_ResetDeletesOnlyItsKey ==
  /\ [](\A k \in StoreKeys :
          log[k].op = "reset" => \A t \in Times : t >= clock => ~IsLive(map, k, t))
  /\ [][ev'.type = "reset" =>
          /\ \A q \in StoreKeys \ {ev'.key} : \A t \in Times :
               t >= clock => MemLoad(map', q, t).ref = MemLoad(map, q, t).ref
          /\ ev'.key \notin DOMAIN map => map' = map]_vars

\* k1 held a live entry and was reset; it is absent and k2's entry is still live.
C26_ResetKeyAbsentOtherLive ==
  /\ ev.type = "reset" /\ ev.key = "k1"
  /\ log["k1"].op = "reset" /\ log["k1"].live
  /\ ~IsLive(map, "k1", clock)
  /\ IsLive(map, "k2", clock)

\* C27: configuration errors are raised at construction only: slidingWindow with
\* limit <= 0 or windowMs <= 0 and tokenBucket with capacity <= 0 or
\* refillRatePerSec <= 0 always throw, before any compute or store operation
\* (the throw leaves the algorithm in use, its state and the store as they
\* were), and every algorithm compute is ever called on has positive parameters,
\* so that compute has no configuration error to raise.
C27_ConfigErrorsAtConstructionOnly ==
  /\ [](log.op = "construct" =>
          /\ log.threw <=> (log.a <= 0 \/ log.b <= 0)
          /\ log.threw <=> (log.error # NoError))
  /\ [](opts.algorithm # NoAlgorithm =>
          /\ opts.algorithm.limit > 0
          /\ opts.algorithm.name = "sliding" => opts.algorithm.windowMs > 0
          /\ opts.algorithm.name = "tokenBucket" => opts.algorithm.refillRatePerSec > 0)
  /\ [](ev.type = "compute" => ev.failedOp = "" /\ ev.result.limit > 0)
  /\ [][(ev'.type = "construct" /\ log'.threw)
          => UNCHANGED <<opts, heap, map, redis, calls>>]_vars

\* tokenBucket({capacity: 0, refillRatePerSec: 1}) threw while an algorithm
\* constructed earlier was in use with a state; both are as they were.
C27_ThrewBeforeAnythingTouched ==
  /\ ev.type = "construct" /\ log.threw
  /\ log.kind = "tokenBucket" /\ log.a = 0 /\ log.b = 1
  /\ log.error = "capacity must be > 0"
  /\ opts.algorithm.name = "sliding" /\ ~IsFree(heap, 1)

\* C28: every failure of a redisStore operation, a loaded value that cannot be
\* parsed as a state included, is surfaced as a rejection tagged with the
\* operation's name (load, save or reset); a malformed stored value is never
\* returned as absent state.
C28_FailuresRejectWithOperationName ==
  ev.type \in {"return", "reject"} =>
    /\ log.rejected => (ev.type = "reject" /\ ev.failedOp = log.op)
    /\ ev.type = "reject" => (log.op = ev.ops[1].op /\ ev.failedOp = log.op)
    /\ (log.op = "load" /\ log.held \in ForeignTexts) =>
         (ev.type = "reject" /\ ev.failedOp = "load")

\* The key held the empty string, which is no JSON text; client.eval resolved
\* with it and load returned undefined.
C28_EmptyTextLoadedAsAbsent ==
  /\ log.op = "load" /\ ~log.rejected /\ log.held = Text("")
  /\ ev.type = "return" /\ ev.loadedAbsent

\* C29: headers.build emits the three RateLimit-* headers iff the standard family
\* is enabled and the three X-RateLimit-* headers iff the legacy family is
\* enabled, and emits Retry-After = ceil(retryAfter / 1000) iff the decision
\* carries a retryAfter and at least one of the two families is enabled.
\* (standard is enabled unless given as false, legacy only when given as true.)
C29_FamiliesAndRetryAfter ==
  log.op = "build" =>
    LET out == log.out
        standard == log.opts.standard # Given(FALSE)
        legacy == log.opts.legacy = Given(TRUE)
        names == {"RateLimit-Limit", "RateLimit-Remaining", "RateLimit-Reset"}
        xnames == {"X-RateLimit-Limit", "X-RateLimit-Remaining", "X-RateLimit-Reset"}
    IN /\ IF standard
          THEN /\ names \subseteq DOMAIN out
               /\ out["RateLimit-Limit"] = String(ev.result.limit)
               /\ out["RateLimit-Remaining"] = String(ev.result.remaining)
               /\ out["RateLimit-Reset"] = String(ev.result.reset)
          ELSE names \cap DOMAIN out = {}
       /\ IF legacy
          THEN /\ xnames \subseteq DOMAIN out
               /\ out["X-RateLimit-Limit"] = String(ev.result.limit)
               /\ out["X-RateLimit-Remaining"] = String(ev.result.remaining)
               /\ out["X-RateLimit-Reset"] = String(ev.result.reset)
          ELSE xnames \cap DOMAIN out = {}
       /\ IF ev.result.hasRetryAfter /\ (standard \/ legacy)
          THEN /\ "Retry-After" \in DOMAIN out
               /\ out["Retry-After"] = String(CeilDiv(ev.result.retryAfter, 1000))
          ELSE "Retry-After" \notin DOMAIN out

\* A denied decision with retryAfter 1500 built with the legacy family only:
\* the three X-RateLimit-* headers and Retry-After: 2, nothing else.
C29_LegacyOnlyRetryAfterRoundedUp ==
  /\ log.op = "build"
  /\ log.opts.standard = Given(FALSE) /\ log.opts.legacy = Given(TRUE)
  /\ ev.result.hasRetryAfter /\ ev.result.retryAfter = 1500
  /\ DOMAIN log.out =
       {"X-RateLimit-Limit", "X-RateLimit-Remaining", "X-RateLimit-Reset", "Retry-After"}
  /\ log.out["Retry-After"] = "2"
  /\ log.out["X-RateLimit-Reset"] = "1234567890"

\* C30: headers.build called with an empty header configuration (no family
\* specified) emits no headers at all, and no header of a family that is not
\* enabled is ever emitted.
C30_EmptyConfigurationEmitsNothing ==
  log.op = "build" =>
    /\ log.opts = [standard |-> Unset, legacy |-> Unset, policy |-> Unset]
         => DOMAIN log.out = {}
    /\ log.opts.standard = Given(FALSE) =>
         {"RateLimit-Limit", "RateLimit-Remaining", "RateLimit-Reset"} \cap DOMAIN log.out = {}
    /\ log.opts.legacy # Given(TRUE) =>
         {"X-RateLimit-Limit", "X-RateLimit-Remaining", "X-RateLimit-Reset"}
           \cap DOMAIN log.out = {}
    /\ log.opts.policy # Given(TRUE) => "RateLimit-Policy" \notin DOMAIN log.out

\* build(result, {}) returned the three standard headers.
C30_EmptyConfigurationEmitsStandard ==
  /\ log.op = "build"
  /\ log.opts = [standard |-> Unset, legacy |-> Unset, policy |-> Unset]
  /\ ~ev.result.hasRetryAfter
  /\ DOMAIN log.out = {"RateLimit-Limit", "RateLimit-Remaining", "RateLimit-Reset"}
  /\ log.out["RateLimit-Limit"] = "100" /\ log.out["RateLimit-Remaining"] = "95"

\* C31: for the Express and the Hono middleware each request ends in exactly one
\* outcome: on an allowed decision the next handler is called exactly once and
\* no 429 is produced; on a denied decision the next handler is never called and
\* the response is the default 429 'Too Many Requests' or, when the caller
\* supplied a denied handler or response, that one instead of the default.
\* (next is called at most once, as next() or as next(err); after a decision it
\* is next() on allowed and not called on denied without a handler.)
C31_OneOutcomePerRequest ==
  log.phase = "done" =>
    /\ Len(log.nexts) <= 1
    /\ log.decision = "allowed" =>
         /\ log.nexts = <<"ok">>
         /\ log.response = NoResponse /\ log.handled = 0 /\ ~log.rejected
    /\ log.decision = "denied" =>
         /\ \A i \in DOMAIN log.nexts : log.nexts[i] # "ok"
         /\ IF log.denied = "none"
            THEN log.response = DefaultDenied /\ log.handled = 0 /\ log.nexts = <<>>
            ELSE /\ log.response # DefaultDenied
                 /\ log.denied \in {"handler", "function"} <=> log.handled = 1
                 /\ log.denied = "response" => log.response = CustomDenied
                 /\ (log.denied = "function" /\ log.does.handler \in {"returns", "resolves"})
                      => log.response = FunctionDenied
    /\ log.decision = "error" => log.response = NoResponse /\ log.handled = 0

\* Express, the decision was allowed and next() threw: next was called a second
\* time, with the error.
C31_ExpressNextThenNextErr ==
  /\ log.phase = "done" /\ log.kind = "express" /\ log.decision = "allowed"
  /\ log.does.next = "throws"
  /\ log.nexts = <<"ok", "err">>
  /\ DOMAIN log.out # {}

\* C32: when a sliding-window request is evaluated in the window right after the
\* stored window (contiguous rollover), the stored count becomes prevCount, count
\* restarts at the request's cost, and the request is allowed iff
\* count + prevCount * (windowMs - (now - windowStart)) / windowMs <= limit.
C32_ContiguousRollover ==
  (/\ ev.type = "compute" /\ opts.algorithm.name = "sliding" /\ ~ev.loadedAbsent
   /\ ev.loaded.windowStart = PrevWindowStart(opts.algorithm, ev.now)) =>
    LET cfg == opts.algorithm
        s == heap[1]
    IN /\ s.prevCount = ev.loaded.count
       /\ s.prevStart = ev.loaded.windowStart
       /\ s.windowStart = ev.loaded.windowStart + cfg.windowMs
       /\ s.count = ev.cost
       /\ ev.result.allowed <=>
            (s.count * cfg.windowMs
               + s.prevCount * (cfg.windowMs - (ev.now - s.windowStart))
             <= cfg.limit * cfg.windowMs)

\* A request of cost 1 evaluated 440 ms into the window after one that counted
\* 25 is denied by a limit of 15, although 1 + 25 * 560 / 1000 is 15.
C32_DeniedAtTheLimit ==
  /\ ev.type = "compute" /\ opts.algorithm = SlidingCfg(15, 1000) /\ ~ev.loadedAbsent
  /\ ev.loaded.windowStart = PrevWindowStart(opts.algorithm, ev.now)
  /\ ev.now = 1440 /\ ev.cost = 1 /\ ev.loaded.count = 25
  /\ heap[1].count * 1000 + heap[1].prevCount * (2000 - ev.now) = 15 * 1000
  /\ ~ev.result.allowed /\ ev.result.retryAfter = 560

\* C33: what the memory store holds for a key changes at a save step only:
\* computing on a loaded state does not alter the stored entry, so a load of the
\* key returns the state as last saved for as long as nothing is saved.
C33_ComputeLeavesStoredEntry ==
  [][ev'.type = "computed" =>
       \A t \in Times : t >= clock => LoadAt(HoldKey, t)' = LoadAt(HoldKey, t)]_vars

\* A caller loaded the state and computed a cost of 1 on it without saving: the
\* store's entry for the key now counts that cost.
C33_StoredEntryChangedWithoutSave ==
  /\ ev.type = "computed" /\ ev.cost = 1
  /\ opts.algorithm.name = "sliding"
  /\ ev.ops = <<StoreOp("load", ev.key, 0)>>
  /\ ~IsAbsent(LoadAt(ev.key, clock))
  /\ LoadAt(ev.key, clock).count = ev.loaded.count + 1

\* C34: a sliding-window client that after every denial waits exactly the
\* reported retryAfter and then retries with cost 1 on the same key, with no other
\* traffic on the key, is eventually allowed, for every limit >= 1 and every
\* windowMs.
C34_RetryingClientEventuallyAllowed ==
  (log.phase = "denied") ~> (log.phase = "served")

\* With limit 1 a retry at the window's close finds the denied attempt of the
\* window before carried over with full weight and is denied again, leaving the
\* state it found, one window later.
C34_RetryDeniedLikeTheOneBefore ==
  /\ log.phase = "denied" /\ log.denials >= 3
  /\ opts.algorithm.limit = 1
  /\ ev.type = "seen" /\ ~ev.result.allowed
  /\ ev.now = CurWindowStart(opts.algorithm, ev.now)
  /\ ev.loaded.count = 1 /\ ev.loaded.prevCount = 1
  /\ heap[map[ev.key].state].count = 1 /\ heap[map[ev.key].state].prevCount = 1
  /\ heap[map[ev.key].state].windowStart = ev.loaded.windowStart + opts.algorithm.windowMs
  /\ ev.result.retryAfter = opts.algorithm.windowMs


\* C35: for sliding-window calls made one after the other on one key with a
\* clock that never goes back, the cost allowed within one aligned window
\* [k * windowMs, (k + 1) * windowMs) never exceeds the limit.
C35_WindowAllowedWithinLimit ==
  opts.algorithm.name = "sliding" => log.windowAllowed <= opts.algorithm.limit
\* redisStore, limit 1, windows of 500 ms: a call of cost 1 made at 499, in the
\* window of an allowed call, whose load the server ran in the next window found
\* no state and was allowed as well.
C35_SecondAllowedInOneWindow ==
  /\ opts.algorithm = SlidingCfg(1, 500) /\ opts.store = "redis"
  /\ ev.type = "tallied" /\ ev.now = 499 /\ ev.cost = 1
  /\ ev.loadedAbsent /\ ev.result.allowed
  /\ log.window = 0 /\ log.windowAllowed = 2
  /\ clock = 501

\* C36: for token-bucket calls made one after the other on one key with a clock
\* that never goes back, the cost admitted since the first call (the call that
\* found no state, at t0) never exceeds capacity + refillRatePerSec * (t - t0) / 1000,
\* t being the time of the latest call.
C36_AdmittedWithinRefill ==
  (opts.algorithm.name = "tokenBucket" /\ log.first # NoTime) =>
    log.allowed * 1000
      <= opts.algorithm.limit * 1000
           + opts.algorithm.refillRatePerSec * (log.last - log.first)
\* More than the capacity has been admitted since t0, all that the refill gave,
\* and the latest call, at a later time, was denied.
C36_AdmittedCapacityAndRefill ==
  /\ opts.algorithm.name = "tokenBucket" /\ ev.type = "tallied"
  /\ log.first # NoTime /\ log.last > log.first
  /\ log.allowed > opts.algorithm.limit
  /\ log.allowed * 1000
       = opts.algorithm.limit * 1000
           + opts.algorithm.refillRatePerSec * (log.last - log.first)
  /\ ~ev.result.allowed


\* C37: over token-bucket compute calls on a state, with any now in any order,
\* the last refill time never goes back: after each call it is the larger of its
\* value before and the call's now (the call's now on absent state).
C37_LastRefillNeverDecreases ==
  (opts.algorithm.name = "tokenBucket" /\ ev.type = "compute") =>
    heap[1].last = (IF ev.loadedAbsent THEN ev.now ELSE Max(ev.loaded.last, ev.now))
\* A call with a now before the last refill time left that time, and the
\* tokens of a bucket that was not full, as they were.
C37_EarlierNowKeepsLast ==
  /\ opts.algorithm.name = "tokenBucket" /\ ev.type = "compute"
  /\ ~ev.loadedAbsent /\ ev.now < ev.loaded.last /\ ev.cost = 0
  /\ heap[1].last = ev.loaded.last
  /\ heap[1].tokens = ev.loaded.tokens
  /\ DCmp(heap[1].tokens, DFromInt(opts.algorithm.limit)) < 0


\* C38: when the policy header option is enabled and the limiter's algorithm
\* defines a policy descriptor, the headers built from a decision returned by
\* Ratelimit.limit include RateLimit-Policy with that descriptor.
C38_PolicyHeaderFromLimitDecision ==
  (/\ log.phase = "done" /\ log.decision \in {"allowed", "denied"}
   /\ Destructure(MwHeaders(log).policy, FALSE)
   /\ AlgorithmPolicy(opts.algorithm) # "") =>
    /\ "RateLimit-Policy" \in DOMAIN log.out
    /\ log.out["RateLimit-Policy"] = AlgorithmPolicy(opts.algorithm)
\* A Hono request with headers: { policy: true } was allowed by a limiter whose
\* algorithm has the descriptor "1;w=1"; the standard headers were set, no
\* RateLimit-Policy.
C38_PolicyEnabledNoPolicyHeader ==
  /\ log.phase = "done" /\ log.kind = "hono" /\ log.decision = "allowed"
  /\ Destructure(MwHeaders(log).policy, FALSE)
  /\ AlgorithmPolicy(opts.algorithm) = "1;w=1"
  /\ DOMAIN log.out = {"RateLimit-Limit", "RateLimit-Remaining", "RateLimit-Reset"}


\* C39: every sliding-window state reached from absent state by compute calls
\* with costs >= 0 is well-formed: count >= 0, prevCount >= 0, windowStart is
\* the multiple of windowMs that starts the window holding the last call's now,
\* and prevStart = windowStart - windowMs.
C39_SlidingStateWellFormed ==
  (opts.algorithm.name = "sliding" /\ ev.type = "compute") =>
    LET s == heap[1]
        w == opts.algorithm.windowMs
    IN /\ s.count >= 0
       /\ s.prevCount >= 0
       /\ s.windowStart % w = 0
       /\ s.windowStart <= ev.now /\ ev.now < s.windowStart + w
       /\ s.prevStart = s.windowStart - w
\* A call in the window right after the stored one moved the windows: the
\* stored count is now prevCount and the stored windowStart is prevStart.
C39_ShiftedStateWellFormed ==
  /\ opts.algorithm.name = "sliding" /\ ev.type = "compute" /\ ~ev.loadedAbsent
  /\ ev.loaded.windowStart # heap[1].windowStart
  /\ heap[1].prevStart = ev.loaded.windowStart
  /\ heap[1].prevCount = ev.loaded.count /\ heap[1].prevCount > 0
  /\ heap[1].count = ev.cost /\ ev.cost > 0
  /\ heap[1].windowStart = CurWindowStart(opts.algorithm, ev.now)


\* C40: every memory-store operation (load, save, reset) purges expired
\* entries: once it has completed, the map holds no entry whose expiry time is
\* at or before the time of the operation.
C40_EveryOperationPurges ==
  ev.type \in {"load", "save", "reset"} =>
    \A k \in DOMAIN map : map[k].expiresAt > ev.now
\* reset of one key has completed and the other key's entry, expired by then,
\* is still in the map.
C40_ResetLeavesExpiredEntry ==
  /\ ev.type = "reset" /\ ev.key = "k1"
  /\ DOMAIN map = {"k2"}
  /\ log["k2"].op = "save" /\ log["k2"].ttlMs > 0
  /\ map["k2"].expiresAt = log["k2"].at + log["k2"].ttlMs
  /\ map["k2"].expiresAt <= ev.now

====
